---- MODULE Spec2Model ----
(***************************************************************************)
(* FastCollection: memory-mapped containers (queue, stack, map, set) with  *)
(* per-entry TTL.  Records live in a heap addressed by offsets; every      *)
(* container keeps its own heap, header and clock reading.                 *)
(*                                                                         *)
(* Clock: current_timestamp_ns() is modelled by the variable now, counted  *)
(* in ticks; one second is TicksPerSec ticks.  A step of the model reads   *)
(* the clock once.  The clock is a time since an epoch and is positive.    *)
(***************************************************************************)
EXTENDS Integers, Naturals, Sequences, FiniteSets, TLC

(***************************************************************************)
(* Bounds of the model                                                     *)
(***************************************************************************)
MaxNodes == 3
MaxTime == 3
MaxTimeout == 2
MaxWaitOffers == 2
TicksPerSec == 2
MaxOffers == 3
MaxPushes == 3
MaxStackNodes == 2
MaxMapNodes == 3
BucketBits == 1
MaxMapOps == 3
MaxAllocOps == 4
MaxSetNodes == 3
MaxSetOps == 3
MaxListNodes == 3
MaxListAdds == 3
MaxListCalls == 2
MaxClearTag == 2
MaxAbaTag == 4
\* the values of max_elements drainTo is called with
MaxDrain == 2
InitialSize == 1
GrowthSize == 1

(***************************************************************************)
(* fc_common.h                                                             *)
(***************************************************************************)
TTL_INFINITE == -1
NULL_OFFSET == -1

\* compute_hash: FNV-1a over 32 bits.  A hash is kept as its two 16-bit
\* halves <<hi, lo>> (value hi * 65536 + lo); the arithmetic below is the
\* 32-bit arithmetic of the code carried out on the halves.
\* 2166136261 = 33052 * 65536 + 40389, 16777619 = 256 * 65536 + 403
FNV_BASIS_HI == 33052
FNV_BASIS_LO == 40389
FNV_PRIME_HI == 256
FNV_PRIME_LO == 403
TwoTo16 == 65536

RECURSIVE XorBits(_, _, _)
XorBits(a, b, n) ==
    IF n = 0 THEN 0
    ELSE (((a % 2) + (b % 2)) % 2) + 2 * XorBits(a \div 2, b \div 2, n - 1)

\* hash ^= data[i] : the operand is one byte, so only the low 8 bits change
XorByte(h, byte) == <<h[1], (h[2] - (h[2] % 256)) + XorBits(h[2] % 256, byte, 8)>>

\* hash *= 16777619u (mod 2^32)
MulPrime(h) ==
    LET lolo == h[2] * FNV_PRIME_LO
    IN <<(h[1] * FNV_PRIME_LO + h[2] * FNV_PRIME_HI + (lolo \div TwoTo16)) % TwoTo16,
         lolo % TwoTo16>>

RECURSIVE HashFrom(_, _, _)
HashFrom(h, data, i) ==
    IF i > Len(data) THEN h
    ELSE HashFrom(MulPrime(XorByte(h, data[i])), data, i + 1)

compute_hash(data) == HashFrom(<<FNV_BASIS_HI, FNV_BASIS_LO>>, data, 1)

(***************************************************************************)
(* fc_serialization.h : ShmEntry                                           *)
(***************************************************************************)
STATE_EMPTY == 0
STATE_WRITING == 1
STATE_VALID == 2
STATE_DELETED == 3
STATE_EXPIRED == 4

is_valid(e) == e.state = STATE_VALID

is_expired(e, t) ==
    IF e.state = STATE_EXPIRED THEN TRUE
    ELSE IF e.state # STATE_VALID THEN FALSE
    ELSE IF e.expires_at = 0 THEN FALSE
    ELSE t >= e.expires_at

is_alive_le(e, t) ==
    IF ~is_valid(e) THEN FALSE
    ELSE IF e.expires_at = 0 THEN TRUE
    ELSE t <= e.expires_at

is_alive(e, t) ==
    IF ~is_valid(e) THEN FALSE
    ELSE IF e.expires_at = 0 THEN TRUE
    ELSE t < e.expires_at

\* created_at is written by set_ttl and read only in the expression for
\* expires_at, so it is the local created_at below and not a stored field.
set_ttl_zero_infinite(e, ttl, t) ==
    LET created_at == t
    IN [e EXCEPT !.ttl_seconds = ttl,
                 !.expires_at = IF ttl <= 0 THEN 0 ELSE created_at + ttl * TicksPerSec]

set_ttl(e, ttl, t) ==
    LET created_at == t
    IN [e EXCEPT !.ttl_seconds = ttl,
                 !.expires_at = IF ttl < 0 THEN 0 ELSE created_at + ttl * TicksPerSec]

remaining_ttl_seconds(e, t) ==
    IF e.ttl_seconds < 0 THEN -1
    ELSE IF e.expires_at = 0 THEN -1
    ELSE IF t >= e.expires_at THEN 0
    ELSE (e.expires_at - t) \div TicksPerSec

mark_valid(e) == [e EXCEPT !.state = STATE_VALID]
mark_deleted(e) == [e EXCEPT !.state = STATE_DELETED]

(***************************************************************************)
(* fc_serialization.h : ShmNode                                            *)
(***************************************************************************)
\* ShmEntry() and ShmNode() constructors (placement new in allocate_node)
ShmNode ==
    [state |-> STATE_EMPTY, data_size |-> 0, hash_code |-> <<0, 0>>,
     ttl_seconds |-> TTL_INFINITE, expires_at |-> 0,
     next_offset |-> NULL_OFFSET, prev_offset |-> NULL_OFFSET, data |-> <<>>]

copy_to_node(node, data, ttl, t) ==
    mark_valid(set_ttl([node EXCEPT !.data_size = Len(data),
                                    !.hash_code = compute_hash(data),
                                    !.data = data], ttl, t))

\* The containers that work under a lock never read a record they have
\* returned to the heap; for them the model keeps one content for freed
\* storage (the last store before the free is mark_deleted).
FreedNode == mark_deleted(ShmNode)

\* copy_from_node: empty for an entry that is not alive
copy_from_node(node, t) == IF ~is_alive(node, t) THEN <<>> ELSE node.data

Offsets == 0..(MaxNodes - 1)

\* MMapFileManager::allocate hands out a block of the managed heap.  The heap
\* is the finite set Offsets and the allocator is first fit: it returns the
\* lowest free offset, so a block freed last is handed out again as soon as
\* no lower one is free.  With nothing free it returns nullptr (the grow has
\* failed) and allocate_node throws.
allocate(free) == {o \in free : \A p \in free : o <= p}
Payloads == {<<1>>, <<2>>}

\* the elements the callers insert: a never-expiring one, two with equal bytes
\* of which one expires after a second and one at once, and an empty one
Inputs == {[data |-> <<1>>, ttl |-> TTL_INFINITE], [data |-> <<2>>, ttl |-> 1],
           [data |-> <<2>>, ttl |-> 0], [data |-> <<>>, ttl |-> TTL_INFINITE]}

VARIABLES now,
          qnodes, qfree, qheader,
          q_ref, q_gid, q_next_id, q_polled

qvars == <<qnodes, qfree, qheader, q_ref, q_gid, q_next_id, q_polled>>

(***************************************************************************)
(* Sequence helpers                                                        *)
(***************************************************************************)
RemoveAt(s, i) == SubSeq(s, 1, i - 1) \o SubSeq(s, i + 1, Len(s))

NoDuplicates(s) == \A i, j \in 1..Len(s) : i # j => s[i] # s[j]

(***************************************************************************)
(* fc_queue.cpp : FastQueue.  Every operation holds header_->global_mutex  *)
(* (IpcScopedLock) from its first access to its return, so one operation   *)
(* is one step.  qnodes is the heap, qfree the offsets the allocator may   *)
(* hand out, qheader the DequeHeader.  Operations that change nothing are  *)
(* operators on the state (FastQueue_size, ...); the value an operation    *)
(* returns is an operator on the state it is called in (..._ret).          *)
(***************************************************************************)
QS == [n |-> qnodes, f |-> qfree, h |-> qheader]

DequeHeader == [front_offset |-> NULL_OFFSET, back_offset |-> NULL_OFFSET, size |-> 0]

\* unlink the node at the front, mark it deleted, free it, size.fetch_sub(1)
QRemoveFront(s, front) ==
    LET next == s.n[front].next_offset
        n1 == IF next >= 0 THEN [s.n EXCEPT ![next].prev_offset = NULL_OFFSET] ELSE s.n
        h1 == [s.h EXCEPT !.front_offset = next,
                          !.back_offset = IF next >= 0 THEN @ ELSE NULL_OFFSET,
                          !.size = @ - 1]
    IN [n |-> [n1 EXCEPT ![front] = FreedNode], f |-> s.f \cup {front}, h |-> h1]

\* unlink the node at the back, mark it deleted, free it, size.fetch_sub(1)
QRemoveBack(s, back) ==
    LET prev == s.n[back].prev_offset
        n1 == IF prev >= 0 THEN [s.n EXCEPT ![prev].next_offset = NULL_OFFSET] ELSE s.n
        h1 == [s.h EXCEPT !.back_offset = prev,
                          !.front_offset = IF prev >= 0 THEN @ ELSE NULL_OFFSET,
                          !.size = @ - 1]
    IN [n |-> [n1 EXCEPT ![back] = FreedNode], f |-> s.f \cup {back}, h |-> h1]

\* the unlink without the store to the successor's prev_offset
QUnlink_prev_kept(s, cur) ==
    LET prev == s.n[cur].prev_offset
        next == s.n[cur].next_offset
        n1 == IF prev >= 0 THEN [s.n EXCEPT ![prev].next_offset = next] ELSE s.n
        h1 == IF prev >= 0 THEN s.h ELSE [s.h EXCEPT !.front_offset = next]
        h2 == IF next >= 0 THEN h1 ELSE [h1 EXCEPT !.back_offset = prev]
    IN [n |-> [n1 EXCEPT ![cur] = FreedNode], f |-> s.f \cup {cur},
        h |-> [h2 EXCEPT !.size = @ - 1]]

\* unlink a node anywhere in the chain (removeExpired, removeElement)
QUnlink(s, cur) ==
    LET prev == s.n[cur].prev_offset
        next == s.n[cur].next_offset
        n1 == IF prev >= 0 THEN [s.n EXCEPT ![prev].next_offset = next] ELSE s.n
        h1 == IF prev >= 0 THEN s.h ELSE [s.h EXCEPT !.front_offset = next]
        n2 == IF next >= 0 THEN [n1 EXCEPT ![next].prev_offset = prev] ELSE n1
        h2 == IF next >= 0 THEN h1 ELSE [h1 EXCEPT !.back_offset = prev]
    IN [n |-> [n2 EXCEPT ![cur] = FreedNode], f |-> s.f \cup {cur},
        h |-> [h2 EXCEPT !.size = @ - 1]]

RECURSIVE skip_expired_front(_, _)
skip_expired_front(s, t) ==
    LET front == s.h.front_offset IN
    IF front < 0 THEN s
    ELSE IF ~is_expired(s.n[front], t) THEN s
    ELSE skip_expired_front(QRemoveFront(s, front), t)

RECURSIVE skip_expired_back(_, _)
\* the loop at the head of pollLast
skip_expired_back(s, t) ==
    LET back == s.h.back_offset IN
    IF back < 0 THEN s
    ELSE IF is_alive(s.n[back], t) THEN s
    ELSE skip_expired_back(QRemoveBack(s, back), t)

\* offsets reached from off by next_offset, at most fuel of them
RECURSIVE QWalk(_, _, _)
QWalk(n, off, fuel) ==
    IF off < 0 \/ fuel = 0 THEN <<>>
    ELSE <<off>> \o QWalk(n, n[off].next_offset, fuel - 1)

\* offsets reached from off by prev_offset, at most fuel of them
RECURSIVE QWalkBack(_, _, _)
QWalkBack(n, off, fuel) ==
    IF off < 0 \/ fuel = 0 THEN <<>>
    ELSE <<off>> \o QWalkBack(n, n[off].prev_offset, fuel - 1)

QChain == QWalk(qnodes, qheader.front_offset, MaxNodes + 1)

\* offer, lines 134-148: link the node at the back
QLinkBack(s, off, node) ==
    LET back == s.h.back_offset
        n1 == [s.n EXCEPT ![off] = [node EXCEPT !.prev_offset = back,
                                               !.next_offset = NULL_OFFSET]]
        n2 == IF back >= 0 THEN [n1 EXCEPT ![back].next_offset = off] ELSE n1
        h1 == IF back >= 0 THEN s.h ELSE [s.h EXCEPT !.front_offset = off]
    IN [n |-> n2, f |-> s.f \ {off},
        h |-> [h1 EXCEPT !.back_offset = off, !.size = @ + 1]]

\* offerFirst, lines 300-314: link the node at the front
QLinkFront(s, off, node) ==
    LET front == s.h.front_offset
        n1 == [s.n EXCEPT ![off] = [node EXCEPT !.next_offset = front,
                                               !.prev_offset = NULL_OFFSET]]
        n2 == IF front >= 0 THEN [n1 EXCEPT ![front].prev_offset = off] ELSE n1
        h1 == IF front >= 0 THEN s.h ELSE [s.h EXCEPT !.back_offset = off]
    IN [n |-> n2, f |-> s.f \ {off},
        h |-> [h1 EXCEPT !.front_offset = off, !.size = @ + 1]]

QSetState(s) ==
    /\ qnodes' = s.n
    /\ qfree' = s.f
    /\ qheader' = s.h

(***************************************************************************)
(* The reference deque: q_ref is the sequence of elements the caller has   *)
(* put in and not taken out, front first, each with the id it was offered  *)
(* under and the instant it stops being visible.  q_gid names the id held  *)
(* at each heap offset, q_polled the ids the polls have returned.          *)
(***************************************************************************)
QGhost(id, data, ttl) ==
    [id |-> id, data |-> data,
     exp |-> IF ttl < 0 THEN 0 ELSE now + ttl * TicksPerSec]
QGhostAliveAt(g, t) == g.exp = 0 \/ t < g.exp
QGhostAlive(g) == QGhostAliveAt(g, now)

RECURSIVE QGhostFirstAlive(_, _)
\* index of the first alive element of the reference deque at or after i, else 0
QGhostFirstAlive(s, i) ==
    IF i > Len(s) THEN 0
    ELSE IF QGhostAlive(s[i]) THEN i
    ELSE QGhostFirstAlive(s, i + 1)

RECURSIVE QGhostLastAlive(_, _)
\* index of the last alive element of the reference deque at or before i, else 0
QGhostLastAlive(s, i) ==
    IF i < 1 THEN 0
    ELSE IF QGhostAlive(s[i]) THEN i
    ELSE QGhostLastAlive(s, i - 1)

RECURSIVE QGhostFind(_, _, _)
QGhostFind(s, i, data) ==
    IF i > Len(s) THEN 0
    ELSE IF QGhostAlive(s[i]) /\ s[i].data = data THEN i
    ELSE QGhostFind(s, i + 1, data)

QGidAfter(f) == [o \in Offsets |-> IF o \in f THEN 0 ELSE q_gid[o]]

QGhostUnchanged == UNCHANGED <<q_ref, q_gid, q_next_id, q_polled>>

\* a returned value: the bool and the bytes delivered in out_data
Ret(ok, data) == [ok |-> ok, data |-> data]

\* FastQueue::offer (also add, put, offerLast, offer with timeout)
QOffer(data, ttl) ==
    /\ q_next_id <= MaxOffers
    /\ IF Len(data) = 0 \/ qfree = {}
       THEN \* returns false; or allocate_node throws before anything is linked
            /\ UNCHANGED <<qnodes, qfree, qheader>>
            /\ QGhostUnchanged
       ELSE \E off \in allocate(qfree) :
            /\ QSetState(QLinkBack(QS, off, copy_to_node(ShmNode, data, ttl, now)))
            /\ q_ref' = Append(q_ref, QGhost(q_next_id, data, ttl))
            /\ q_gid' = [q_gid EXCEPT ![off] = q_next_id]
            /\ q_next_id' = q_next_id + 1
            /\ UNCHANGED q_polled
    /\ UNCHANGED now

\* FastQueue::offerFirst
QOfferFirst(data, ttl) ==
    /\ q_next_id <= MaxOffers
    /\ IF Len(data) = 0 \/ qfree = {}
       THEN /\ UNCHANGED <<qnodes, qfree, qheader>>
            /\ QGhostUnchanged
       ELSE \E off \in allocate(qfree) :
            /\ QSetState(QLinkFront(QS, off, copy_to_node(ShmNode, data, ttl, now)))
            /\ q_ref' = <<QGhost(q_next_id, data, ttl)>> \o q_ref
            /\ q_gid' = [q_gid EXCEPT ![off] = q_next_id]
            /\ q_next_id' = q_next_id + 1
            /\ UNCHANGED q_polled
    /\ UNCHANGED now

\* One call reads the clock several times (each is_expired, is_alive and
\* copy_from_node reads it anew); a later reading is any instant from the
\* earlier one on.  now is the instant at which the call starts.
Later(t) == t..MaxTime

\* what poll returns when its is_alive test reads t2 and its copy_from_node t3
FastQueue_poll_ret(t2, t3) ==
    LET s1 == skip_expired_front(QS, now)
        front == s1.h.front_offset
    IN IF front < 0 \/ ~is_alive(s1.n[front], t2) THEN Ret(FALSE, <<>>)
       ELSE Ret(TRUE, copy_from_node(s1.n[front], t3))

\* FastQueue::poll (also remove, one attempt of take and of the timed poll)
QPoll ==
    \E t2 \in Later(now) : \E t3 \in Later(t2) :
    LET s1 == skip_expired_front(QS, now)
        front == s1.h.front_offset
        gi == QGhostFirstAlive(q_ref, 1)
        polled == gi # 0 /\ QGhostAliveAt(q_ref[gi], t2)
    IN /\ q_ref' = IF gi = 0 THEN <<>>
                   ELSE SubSeq(q_ref, IF polled THEN gi + 1 ELSE gi, Len(q_ref))
       /\ IF front < 0 \/ ~is_alive(s1.n[front], t2)
          THEN /\ QSetState(s1)
               /\ UNCHANGED q_polled
          ELSE /\ QSetState(QRemoveFront(s1, front))
               /\ q_polled' = Append(q_polled, q_gid[front])
       /\ q_gid' = QGidAfter(qfree')
       /\ now' = t3
       /\ UNCHANGED q_next_id

\* what peek returns when its is_alive test reads t2 and its copy_from_node t3
FastQueue_peek_ret(t2, t3) ==
    LET s1 == skip_expired_front(QS, now)
        front == s1.h.front_offset
    IN IF front < 0 \/ ~is_alive(s1.n[front], t2) THEN Ret(FALSE, <<>>)
       ELSE Ret(TRUE, copy_from_node(s1.n[front], t3))

\* FastQueue::peek (also element): unlinks the expired prefix, then reads
QPeek ==
    \E t3 \in Later(now) :
    LET s1 == skip_expired_front(QS, now)
        gi == QGhostFirstAlive(q_ref, 1)
    IN /\ q_ref' = IF gi = 0 THEN <<>> ELSE SubSeq(q_ref, gi, Len(q_ref))
       /\ QSetState(s1)
       /\ q_gid' = QGidAfter(qfree')
       /\ now' = t3
       /\ UNCHANGED <<q_next_id, q_polled>>

RECURSIVE QDrain(_, _, _, _, _)
\* drainTo, the loop "while (drained < limit)": the expired prefix is
\* unlinked, then the front is handed to the callback while it is alive.
\* ids are the elements handed over, in order.  The is_expired tests read
\* the clock at t, the is_alive tests at t2.
QDrain(s, ids, limit, t, t2) ==
    LET s1 == skip_expired_front(s, t)
        front == s1.h.front_offset
    IN IF limit = 0 THEN [s |-> s, ids |-> ids]
       ELSE IF front < 0 \/ ~is_alive(s1.n[front], t2) THEN [s |-> s1, ids |-> ids]
       ELSE QDrain(QRemoveFront(s1, front), Append(ids, q_gid[front]),
                   limit - 1, t, t2)

\* the drainTo that never unlinks an expired node
QDrainTo_no_skip(max_elements) ==
    \E t2 \in Later(now) :
    LET front == qheader.front_offset
        taken == front >= 0 /\ is_alive(qnodes[front], t2)
        s1 == IF taken THEN QRemoveFront(QS, front) ELSE QS
        left == {q_gid[o] : o \in Offsets \ s1.f}
        Left(g) == g.id \in left
    IN /\ QSetState(s1)
       /\ q_ref' = SelectSeq(q_ref, Left)
       /\ q_polled' = IF taken THEN Append(q_polled, q_gid[front]) ELSE q_polled
       /\ q_gid' = QGidAfter(qfree')
       /\ now' = t2
       /\ UNCHANGED q_next_id

\* FastQueue::drainTo(callback, max_elements); max_elements = 0 is no limit
\* (SIZE_MAX, here more than the heap holds)
QDrainTo(max_elements) ==
    \E t2 \in Later(now) :
    LET limit == IF max_elements = 0 THEN MaxNodes + 1 ELSE max_elements
        r == QDrain(QS, <<>>, limit, now, t2)
        left == {q_gid[o] : o \in Offsets \ r.s.f}
        Left(g) == g.id \in left
    IN /\ QSetState(r.s)
       /\ q_ref' = SelectSeq(q_ref, Left)
       /\ q_polled' = q_polled \o r.ids
       /\ q_gid' = QGidAfter(qfree')
       /\ now' = t2
       /\ UNCHANGED q_next_id

\* what pollLast returns when its last is_alive test reads t2 and its
\* copy_from_node t3
FastQueue_pollLast_ret(t2, t3) ==
    LET s1 == skip_expired_back(QS, now)
        back == s1.h.back_offset
    IN IF back < 0 \/ ~is_alive(s1.n[back], t2) THEN Ret(FALSE, <<>>)
       ELSE Ret(TRUE, copy_from_node(s1.n[back], t3))

\* FastQueue::pollLast
QPollLast ==
    \E t2 \in Later(now) : \E t3 \in Later(t2) :
    LET s1 == skip_expired_back(QS, now)
        back == s1.h.back_offset
        gi == QGhostLastAlive(q_ref, Len(q_ref))
        polled == gi # 0 /\ QGhostAliveAt(q_ref[gi], t2)
    IN /\ q_ref' = IF gi = 0 THEN <<>>
                   ELSE SubSeq(q_ref, 1, IF polled THEN gi - 1 ELSE gi)
       /\ IF back < 0 \/ ~is_alive(s1.n[back], t2)
          THEN /\ QSetState(s1)
               /\ UNCHANGED q_polled
          ELSE /\ QSetState(QRemoveBack(s1, back))
               /\ q_polled' = Append(q_polled, q_gid[back])
       /\ q_gid' = QGidAfter(qfree')
       /\ now' = t3
       /\ UNCHANGED q_next_id

RECURSIVE QLastAliveFrom(_, _, _)
\* peekLast, lines 399-405: walk prev_offset from back to the first alive node
QLastAliveFrom(n, back, t) ==
    IF back < 0 THEN NULL_OFFSET
    ELSE IF is_alive(n[back], t) THEN back
    ELSE QLastAliveFrom(n, n[back].prev_offset, t)

\* FastQueue::peekLast: walks over expired nodes at the back, unlinks nothing
FastQueue_peekLast(t2, t3) ==
    LET back == QLastAliveFrom(qnodes, qheader.back_offset, now)
    IN IF back < 0 \/ ~is_alive(qnodes[back], t2) THEN Ret(FALSE, <<>>)
       ELSE Ret(TRUE, copy_from_node(qnodes[back], t3))

\* FastQueue::peekLast as a step: nothing of the queue is written
QPeekLast ==
    \E t3 \in Later(now) :
       /\ now' = t3
       /\ UNCHANGED qvars

RECURSIVE QSweep(_, _, _, _)
\* removeExpired, lines 451-484
QSweep(s, current, removed, t) ==
    IF current < 0 THEN [s |-> s, removed |-> removed]
    ELSE LET next == s.n[current].next_offset
         IN IF is_expired(s.n[current], t)
            THEN QSweep(QUnlink(s, current), next, removed + 1, t)
            ELSE QSweep(s, next, removed, t)

\* the count removeExpired returns in the current state
FastQueue_removeExpired_ret == QSweep(QS, qheader.front_offset, 0, now).removed

\* FastQueue::removeExpired
QRemoveExpired ==
    /\ QSetState(QSweep(QS, qheader.front_offset, 0, now).s)
    /\ q_ref' = SelectSeq(q_ref, QGhostAlive)
    /\ q_gid' = QGidAfter(qfree')
    /\ UNCHANGED <<now, q_next_id, q_polled>>

\* the comparison of contains / removeElement
QMatches(node, data, t) ==
    /\ is_alive(node, t)
    /\ node.hash_code = compute_hash(data)
    /\ node.data_size = Len(data)
    /\ node.data = data

RECURSIVE QFind(_, _, _, _)
QFind(n, current, data, t) ==
    IF current < 0 THEN NULL_OFFSET
    ELSE IF QMatches(n[current], data, t) THEN current
    ELSE QFind(n, n[current].next_offset, data, t)

\* FastQueue::contains
FastQueue_contains(data) ==
    IF Len(data) = 0 THEN FALSE
    ELSE QFind(qnodes, qheader.front_offset, data, now) >= 0

\* FastQueue::removeElement
QRemoveElement(data) ==
    LET cur == IF Len(data) = 0 THEN NULL_OFFSET
               ELSE QFind(qnodes, qheader.front_offset, data, now)
        gi == IF Len(data) = 0 THEN 0 ELSE QGhostFind(q_ref, 1, data)
    IN /\ IF cur < 0
          THEN UNCHANGED <<qnodes, qfree, qheader>>
          ELSE QSetState(QUnlink(QS, cur))
       /\ q_ref' = IF gi = 0 THEN q_ref ELSE RemoveAt(q_ref, gi)
       /\ q_gid' = QGidAfter(qfree')
       /\ UNCHANGED <<now, q_next_id, q_polled>>

RECURSIVE QFreeAll(_, _)
\* clear, lines 577-588: mark_deleted and free every node of the chain
QFreeAll(s, current) ==
    IF current < 0 THEN s
    ELSE LET next == s.n[current].next_offset
         IN QFreeAll([s EXCEPT !.n[current] = FreedNode, !.f = @ \cup {current}], next)

\* clear without the store to back_offset
QClear_back_kept ==
    LET s1 == QFreeAll(QS, qheader.front_offset)
    IN /\ QSetState([s1 EXCEPT !.h = [front_offset |-> NULL_OFFSET,
                                      back_offset |-> qheader.back_offset,
                                      size |-> 0]])
       /\ q_ref' = <<>>
       /\ q_gid' = QGidAfter(qfree')
       /\ UNCHANGED <<now, q_next_id, q_polled>>

\* FastQueue::clear
QClear ==
    LET s1 == QFreeAll(QS, qheader.front_offset)
    IN /\ QSetState([s1 EXCEPT !.h = [front_offset |-> NULL_OFFSET,
                                      back_offset |-> NULL_OFFSET, size |-> 0]])
       /\ q_ref' = <<>>
       /\ q_gid' = QGidAfter(qfree')
       /\ UNCHANGED <<now, q_next_id, q_polled>>

RECURSIVE QCountAlive(_, _, _)
QCountAlive(n, current, t) ==
    IF current < 0 THEN 0
    ELSE (IF is_alive(n[current], t) THEN 1 ELSE 0)
         + QCountAlive(n, n[current].next_offset, t)

\* FastQueue::size (isEmpty is size() == 0)
FastQueue_size == QCountAlive(qnodes, qheader.front_offset, now)

\* the mapping of the queue's file as the FastQueue object sees it: the
\* address it is mapped at, the address it was mapped at when the
\* constructor stored header_, the blocks its heap holds, the grows that
\* have succeeded, and whether the process has been killed by a fault
VARIABLE qmap

\* the addresses the system may map the file at, in blocks
Bases == {0, MaxNodes + 1}

MMapFile(cap) == [base |-> 0, header_ |-> 0, cap |-> cap, grows |-> 0, crashed |-> FALSE]

\* header_ points at the header of the current mapping and the process runs
QValid == ~qmap.crashed /\ qmap.header_ = qmap.base

\* MMapFileManager::grow: file_.reset() drops the mapping, the file is
\* grown by bytes + growth_size_ when there is room for it, and it is
\* opened again, at whichever address the system maps it
grow(m, bytes) ==
    {[m EXCEPT !.base = b,
               !.cap = IF m.cap + bytes + GrowthSize <= MaxNodes
                       THEN m.cap + bytes + GrowthSize ELSE m.cap,
               !.grows = IF m.cap + bytes + GrowthSize <= MaxNodes
                         THEN m.grows + 1 ELSE m.grows] : b \in Bases}

\* FastQueue::offer with MMapFileManager::allocate: base is read before
\* allocate_node; an allocation that finds no free block grows the file and
\* allocates from the new mapping; node_offset is the node's address less
\* base; the header is read and written through header_.  When header_
\* points into the dropped mapping its loads and stores are undefined: the
\* process is killed at the first of them, or the load of back_offset
\* yields any offset and the stores do not reach the file's header.
FastQueue_offer(data, ttl) ==
    /\ QValid
    /\ q_next_id <= MaxOffers
    /\ UNCHANGED now
    /\ IF Len(data) = 0
       THEN UNCHANGED <<qnodes, qfree, qheader, qmap>> /\ QGhostUnchanged
       ELSE IF qfree # {}
       THEN \E off \in allocate(qfree) :
            /\ QSetState(QLinkBack(QS, off, copy_to_node(ShmNode, data, ttl, now)))
            /\ q_ref' = Append(q_ref, QGhost(q_next_id, data, ttl))
            /\ q_gid' = [q_gid EXCEPT ![off] = q_next_id]
            /\ q_next_id' = q_next_id + 1
            /\ UNCHANGED <<q_polled, qmap>>
       ELSE \E m \in grow(qmap, 1) :
            IF m.cap = qmap.cap
            THEN \* the grow has failed and allocate throws; the lock is
                 \* released through header_
                 /\ \/ qmap' = m
                    \/ m.base # qmap.header_ /\ qmap' = [m EXCEPT !.crashed = TRUE]
                 /\ UNCHANGED <<qnodes, qfree, qheader>>
                 /\ QGhostUnchanged
            ELSE \E off \in allocate(qmap.cap..(m.cap - 1)) :
                 LET node == copy_to_node(ShmNode, data, ttl, now)
                     free == (qmap.cap..(m.cap - 1)) \ {off}
                     node_offset == (m.base + off) - qmap.base
                 IN /\ q_ref' = Append(q_ref, QGhost(q_next_id, data, ttl))
                    /\ q_gid' = [q_gid EXCEPT ![off] = q_next_id]
                    /\ q_next_id' = q_next_id + 1
                    /\ UNCHANGED q_polled
                    /\ IF m.base = qmap.header_
                       THEN /\ QSetState(QLinkBack([QS EXCEPT !.f = free \cup {off}],
                                                 node_offset, node))
                            /\ qmap' = m
                       ELSE /\ qfree' = free
                            /\ qheader' = qheader
                            /\ \/ /\ qnodes' = [qnodes EXCEPT ![off] = node]
                                  /\ qmap' = [m EXCEPT !.crashed = TRUE]
                               \/ \E back \in {NULL_OFFSET} \cup Offsets :
                                  /\ qnodes' =
                                       [o \in Offsets |->
                                          IF o = off
                                          THEN [node EXCEPT
                                                  !.prev_offset = back,
                                                  !.next_offset =
                                                      IF back = off THEN node_offset
                                                      ELSE NULL_OFFSET]
                                          ELSE IF o = back
                                          THEN [qnodes[o] EXCEPT !.next_offset = node_offset]
                                          ELSE qnodes[o]]
                                  /\ qmap' = m

(***************************************************************************)
(* FastQueue::take and FastQueue::poll(out_data, timeout_ms): a loop around *)
(* poll(out_data) with sleep_for(1 ms) between the attempts.  Each attempt  *)
(* takes global_mutex (IpcScopedLock in poll), so the threads that wait     *)
(* meet at the mutex: qwait holds the mutex's owner, where each waiting     *)
(* thread stands, the deadline of poll(timeout) and what the call returned. *)
(***************************************************************************)
VARIABLE qwait

QConsumers == {"take", "poll"}

\* the timeouts poll is called with, in ticks of the clock
Timeouts == 0..MaxTimeout

QWaitInit == [lock |-> "free",
              pc |-> [c \in QConsumers |-> "idle"],
              deadline |-> 0,
              ok |-> [c \in QConsumers |-> FALSE]]

\* FastQueue::take is called
QTakeCall ==
    /\ qwait.pc["take"] = "idle"
    /\ qwait' = [qwait EXCEPT !.pc["take"] = "lock"]
    /\ UNCHANGED <<now, qvars>>

\* FastQueue::poll(out_data, timeout_ms) is called: deadline = now + timeout;
\* the thread stands before the first test of the loop ("called"; "check"
\* is the test after a sleep)
QPollCall(timeout_ms) ==
    /\ qwait.pc["poll"] = "idle"
    /\ qwait' = [qwait EXCEPT !.pc["poll"] = "called", !.deadline = now + timeout_ms]
    /\ UNCHANGED <<now, qvars>>

\* while (steady_clock::now() < deadline); return false after the loop
QPollCheck ==
    /\ qwait.pc["poll"] \in {"called", "check"}
    /\ qwait' = IF now < qwait.deadline
                THEN [qwait EXCEPT !.pc["poll"] = "lock"]
                ELSE [qwait EXCEPT !.pc["poll"] = "done", !.ok["poll"] = FALSE]
    /\ UNCHANGED <<now, qvars>>

\* IpcScopedLock lock(header_->global_mutex) of poll(out_data)
QWaitLock(c) ==
    /\ qwait.pc[c] = "lock"
    /\ qwait.lock = "free"
    /\ qwait' = [qwait EXCEPT !.lock = c, !.pc[c] = "poll"]
    /\ UNCHANGED <<now, qvars>>

\* a poll(out_data) that goes to sleep without releasing global_mutex
QWaitPoll_lock_kept(c) ==
    /\ qwait.pc[c] = "poll"
    /\ QPoll
    /\ qwait' = IF Len(q_polled') > Len(q_polled)
                THEN [qwait EXCEPT !.lock = "free", !.pc[c] = "done", !.ok[c] = TRUE]
                ELSE [qwait EXCEPT !.pc[c] = "sleep"]

\* the body of poll(out_data) and the end of its scope: return result, or
\* go on to sleep_for
QWaitPoll(c) ==
    /\ qwait.pc[c] = "poll"
    /\ QPoll
    /\ qwait' = IF Len(q_polled') > Len(q_polled)
                THEN [qwait EXCEPT !.lock = "free", !.pc[c] = "done", !.ok[c] = TRUE]
                ELSE [qwait EXCEPT !.lock = "free", !.pc[c] = "sleep"]

\* sleep_for(1 ms) is over: take tries again, poll looks at its deadline
QWaitWake(c) ==
    /\ qwait.pc[c] = "sleep"
    /\ qwait' = [qwait EXCEPT !.pc[c] = IF c = "take" THEN "lock" ELSE "check"]
    /\ UNCHANGED <<now, qvars>>

\* a producer: offer holds global_mutex from its first access to its return
QWaitOffer(data, ttl) ==
    /\ qwait.lock = "free"
    /\ q_next_id <= MaxWaitOffers
    /\ QOffer(data, ttl)
    /\ UNCHANGED qwait

\* the steps of a waiting thread after its call
QWaitStep(c) ==
    \/ QWaitLock(c)
    \/ QWaitPoll(c)
    \/ QWaitWake(c)
    \/ c = "poll" /\ QPollCheck

QInit == /\ qnodes = [o \in Offsets |-> ShmNode]
         /\ qfree = Offsets
         /\ qheader = DequeHeader
         /\ q_ref = <<>>
         /\ q_gid = [o \in Offsets |-> 0]
         /\ q_next_id = 1
         /\ q_polled = <<>>

(***************************************************************************)
(* fc_stack.cpp : FastStack.  push and pop take no lock: each is a loop    *)
(* around a compare-and-swap of header_->front_offset, so every shared     *)
(* load, store and CAS of a thread is a step of its own.  sthreads are the *)
(* threads that use the stack, spc[t] is where thread t stands and sloc[t] *)
(* its local variables.  deallocate leaves the bytes of a node in place:   *)
(* a thread that still holds its offset reads what was last stored there.  *)
(***************************************************************************)
SThreads == {1, 2}

\* the heap of the stack's file
SOffsets == 0..(MaxStackNodes - 1)

SInputs == {[data |-> <<1>>, ttl |-> TTL_INFINITE], [data |-> <<2>>, ttl |-> 1],
            [data |-> <<>>, ttl |-> TTL_INFINITE]}

VARIABLES snodes, sfree, sheader, sthreads, spc, sloc,
          s_ref, s_gid, s_next_id, s_obs

svars == <<snodes, sfree, sheader, sthreads, spc, sloc, s_ref, s_gid, s_next_id, s_obs>>

\* DequeHeader of the stack and the separate "stack_aba_tag" counter
StackHeader == [front_offset |-> NULL_OFFSET, size |-> 0, aba_tag |-> 0]

\* the locals of push (node, top = old_top) and pop (top, next, data =
\* temp_data, expired = the branch taken)
SLocals == [node |-> NULL_OFFSET, top |-> NULL_OFFSET, next |-> NULL_OFFSET,
            data |-> <<>>, expired |-> FALSE]

\* what the reference stack remembers of a thread's operation: the id it saw
\* at the top when it loaded front_offset and the element its CAS took off
SObs == [seen |-> 0, took |-> QGhost(0, <<>>, TTL_INFINITE)]

SGoto(t, pc, loc) == /\ spc' = [spc EXCEPT ![t] = pc]
                     /\ sloc' = [sloc EXCEPT ![t] = loc]

\* FastStack::push up to the CAS loop: the size check, allocate_node (which
\* throws when the heap is exhausted) and copy_to_node
SPushBegin(t, data, ttl) ==
    /\ t \in sthreads /\ spc[t] = "idle"
    /\ s_next_id <= MaxPushes
    /\ IF Len(data) = 0 \/ sfree = {}
       THEN UNCHANGED <<snodes, sfree, spc, sloc, s_gid, s_next_id>>
       ELSE \E off \in allocate(sfree) :
            /\ snodes' = [snodes EXCEPT ![off] = copy_to_node(ShmNode, data, ttl, now)]
            /\ sfree' = sfree \ {off}
            /\ SGoto(t, "push_load", [SLocals EXCEPT !.node = off])
            /\ s_gid' = [s_gid EXCEPT ![off] = s_next_id]
            /\ s_next_id' = s_next_id + 1
    /\ UNCHANGED <<now, sheader, sthreads, s_ref, s_obs>>

\* push: old_top = front_offset.load(); node->next_offset = old_top;
\* node->prev_offset = NULL_OFFSET
SPushLoad(t) ==
    /\ t \in sthreads /\ spc[t] = "push_load"
    /\ LET old_top == sheader.front_offset
       IN /\ snodes' = [snodes EXCEPT ![sloc[t].node].next_offset = old_top,
                                      ![sloc[t].node].prev_offset = NULL_OFFSET]
          /\ SGoto(t, "push_cas", [sloc[t] EXCEPT !.top = old_top])
    /\ UNCHANGED <<now, sfree, sheader, sthreads, s_ref, s_gid, s_next_id, s_obs>>

\* compare_exchange_weak on front_offset compares the stored offset with the
\* expected one and nothing else (aba_tag is no part of the compared word);
\* being weak it may also fail although they are equal
cas_front(h, expected) == h.front_offset = expected

\* push: compare_exchange_weak(old_top, node_offset)
SPushCas(t) ==
    /\ t \in sthreads /\ spc[t] = "push_cas"
    /\ \/ /\ cas_front(sheader, sloc[t].top)
          /\ sheader' = [sheader EXCEPT !.front_offset = sloc[t].node]
          /\ SGoto(t, "push_post", sloc[t])
          /\ s_ref' = <<[id |-> s_gid[sloc[t].node],
                         data |-> snodes[sloc[t].node].data,
                         exp |-> snodes[sloc[t].node].expires_at]>> \o s_ref
       \/ /\ SGoto(t, "push_load", sloc[t])
          /\ UNCHANGED <<sheader, s_ref>>
    /\ UNCHANGED <<now, snodes, sfree, sthreads, s_gid, s_next_id, s_obs>>

\* push after its CAS: the previous top's prev_offset, the ABA tag, the size
SPushPost(t) ==
    /\ t \in sthreads /\ spc[t] = "push_post"
    /\ snodes' = IF sloc[t].top >= 0
                 THEN [snodes EXCEPT ![sloc[t].top].prev_offset = sloc[t].node]
                 ELSE snodes
    /\ sheader' = [sheader EXCEPT !.aba_tag = @ + 1, !.size = @ + 1]
    /\ SGoto(t, "idle", SLocals)
    /\ UNCHANGED <<now, sfree, sthreads, s_ref, s_gid, s_next_id, s_obs>>

\* FastStack::pushAll: for each element, push.  The steps of each push are
\* those of push above; the thread keeps the elements still to push (rest)
\* and, for the reference, the node of the element it pushed before (below).
SPushAllLocals(off, rest, below) ==
    [node |-> off, top |-> NULL_OFFSET, next |-> NULL_OFFSET, data |-> <<>>,
     expired |-> FALSE, rest |-> rest, below |-> below]

\* pushAll is called: the first push up to its CAS loop
SPushAllBegin(t, elements) ==
    /\ t \in sthreads /\ spc[t] = "idle"
    /\ s_next_id + Len(elements) - 1 <= MaxPushes
    /\ sfree # {}
    /\ \E off \in allocate(sfree) :
         /\ snodes' = [snodes EXCEPT ![off] =
                          copy_to_node(ShmNode, elements[1].data, elements[1].ttl, now)]
         /\ sfree' = sfree \ {off}
         /\ SGoto(t, "all_load", SPushAllLocals(off, Tail(elements), NULL_OFFSET))
         /\ s_gid' = [s_gid EXCEPT ![off] = s_next_id]
         /\ s_next_id' = s_next_id + 1
    /\ UNCHANGED <<now, sheader, sthreads, s_ref, s_obs>>

SPushAllLoad(t) ==
    /\ t \in sthreads /\ spc[t] = "all_load"
    /\ LET old_top == sheader.front_offset
       IN /\ snodes' = [snodes EXCEPT ![sloc[t].node].next_offset = old_top,
                                      ![sloc[t].node].prev_offset = NULL_OFFSET]
          /\ SGoto(t, "all_cas", [sloc[t] EXCEPT !.top = old_top])
    /\ UNCHANGED <<now, sfree, sheader, sthreads, s_ref, s_gid, s_next_id, s_obs>>

SPushAllCas(t) ==
    /\ t \in sthreads /\ spc[t] = "all_cas"
    /\ \/ /\ cas_front(sheader, sloc[t].top)
          /\ sheader' = [sheader EXCEPT !.front_offset = sloc[t].node]
          /\ SGoto(t, "all_post", sloc[t])
          /\ s_ref' = <<[id |-> s_gid[sloc[t].node],
                         data |-> snodes[sloc[t].node].data,
                         exp |-> snodes[sloc[t].node].expires_at]>> \o s_ref
       \/ /\ SGoto(t, "all_load", sloc[t])
          /\ UNCHANGED <<sheader, s_ref>>
    /\ UNCHANGED <<now, snodes, sfree, sthreads, s_gid, s_next_id, s_obs>>

\* the push after its CAS, then the next iteration of the loop: pushAll
\* returns after the last element, or the next push starts (allocate_node
\* throws out of pushAll when the heap is exhausted)
SPushAllPost(t) ==
    /\ t \in sthreads /\ spc[t] = "all_post"
    /\ sheader' = [sheader EXCEPT !.aba_tag = @ + 1, !.size = @ + 1]
    /\ LET n1 == IF sloc[t].top >= 0
                 THEN [snodes EXCEPT ![sloc[t].top].prev_offset = sloc[t].node]
                 ELSE snodes
           rest == sloc[t].rest
       IN IF rest = <<>> \/ sfree = {}
          THEN /\ snodes' = n1
               /\ SGoto(t, "idle", SLocals)
               /\ UNCHANGED <<sfree, s_gid, s_next_id>>
          ELSE \E off \in allocate(sfree) :
               /\ snodes' = [n1 EXCEPT ![off] =
                                copy_to_node(ShmNode, rest[1].data, rest[1].ttl, now)]
               /\ sfree' = sfree \ {off}
               /\ SGoto(t, "all_load", SPushAllLocals(off, Tail(rest), sloc[t].node))
               /\ s_gid' = [s_gid EXCEPT ![off] = s_next_id]
               /\ s_next_id' = s_next_id + 1
    /\ UNCHANGED <<now, sthreads, s_ref, s_obs>>

\* thread t is inside pushAll with an element linked and one still to link
SPrefixPushed(t) ==
    \/ spc[t] \in {"all_load", "all_cas"} /\ sloc[t].below >= 0
    \/ spc[t] = "all_post" /\ sloc[t].rest # <<>>

\* pop: top = front_offset.load(); an empty stack returns false
SPopLoad(t) ==
    /\ t \in sthreads /\ spc[t] \in {"idle", "pop_load"}
    /\ LET top == sheader.front_offset
       IN IF top < 0
          THEN /\ SGoto(t, "idle", SLocals)
               /\ s_obs' = [s_obs EXCEPT ![t] = SObs]
          ELSE /\ SGoto(t, "pop_check", [SLocals EXCEPT !.top = top])
               /\ s_obs' = [s_obs EXCEPT ![t] = [SObs EXCEPT !.seen = s_gid[top]]]
    /\ UNCHANGED <<now, snodes, sfree, sheader, sthreads, s_ref, s_gid, s_next_id>>

\* pop: node->entry.is_expired(); an expired top goes on to load next and CAS
SPopCheck(t) ==
    /\ t \in sthreads /\ spc[t] = "pop_check"
    /\ LET node == snodes[sloc[t].top]
       IN IF is_expired(node, now)
          THEN SGoto(t, "pop_cas", [sloc[t] EXCEPT !.expired = TRUE,
                                                   !.next = node.next_offset])
          ELSE SGoto(t, "pop_copy", sloc[t])
    /\ UNCHANGED <<now, snodes, sfree, sheader, sthreads, s_ref, s_gid, s_next_id, s_obs>>

\* pop: next = node->next_offset.load(); temp_data = copy_from_node(node)
SPopCopy(t) ==
    /\ t \in sthreads /\ spc[t] = "pop_copy"
    /\ LET node == snodes[sloc[t].top]
       IN SGoto(t, "pop_cas", [sloc[t] EXCEPT !.next = node.next_offset,
                                              !.data = copy_from_node(node, now)])
    /\ UNCHANGED <<now, snodes, sfree, sheader, sthreads, s_ref, s_gid, s_next_id, s_obs>>

\* pop: compare_exchange_weak(top, next), in either branch
SPopCas(t) ==
    /\ t \in sthreads /\ spc[t] = "pop_cas"
    /\ \/ /\ cas_front(sheader, sloc[t].top)
          /\ sheader' = [sheader EXCEPT !.front_offset = sloc[t].next]
          /\ SGoto(t, "pop_post", sloc[t])
          /\ s_obs' = [s_obs EXCEPT ![t].took =
                          IF s_ref = <<>> THEN SObs.took ELSE Head(s_ref)]
          /\ s_ref' = IF s_ref = <<>> THEN s_ref ELSE Tail(s_ref)
       \/ /\ SGoto(t, "pop_load", SLocals)
          /\ UNCHANGED <<sheader, s_ref, s_obs>>
    /\ UNCHANGED <<now, snodes, sfree, sthreads, s_gid, s_next_id>>

\* pop after its CAS: next's prev_offset, mark_deleted, free_node, the ABA
\* tag and the size; the expired branch then retries, the other returns true
\* with temp_data
SPopPost(t) ==
    /\ t \in sthreads /\ spc[t] = "pop_post"
    /\ LET n1 == IF sloc[t].next >= 0
                 THEN [snodes EXCEPT ![sloc[t].next].prev_offset = NULL_OFFSET]
                 ELSE snodes
       IN snodes' = [n1 EXCEPT ![sloc[t].top] = mark_deleted(@)]
    /\ sfree' = sfree \cup {sloc[t].top}
    /\ sheader' = [sheader EXCEPT !.aba_tag = @ + 1, !.size = @ - 1]
    /\ IF sloc[t].expired THEN SGoto(t, "pop_load", SLocals)
                          ELSE SGoto(t, "idle", SLocals)
    /\ s_obs' = [s_obs EXCEPT ![t] = SObs]
    /\ UNCHANGED <<now, sthreads, s_ref, s_gid, s_next_id>>

RECURSIVE SSweep(_, _, _, _, _, _)
\* FastStack::removeExpired, the while loop: prev_offset is the last node
\* that was kept
SSweep(n, f, h, current, prev_offset, t) ==
    IF current < 0 THEN [n |-> n, f |-> f, h |-> h]
    ELSE LET next == n[current].next_offset
         IN IF is_expired(n[current], t)
            THEN LET n1 == IF prev_offset < 0 THEN n
                           ELSE [n EXCEPT ![prev_offset].next_offset = next]
                     h1 == IF prev_offset < 0 THEN [h EXCEPT !.front_offset = next]
                           ELSE h
                     n2 == IF next >= 0 THEN [n1 EXCEPT ![next].prev_offset = prev_offset]
                           ELSE n1
                 IN SSweep([n2 EXCEPT ![current] = mark_deleted(@)], f \cup {current},
                           [h1 EXCEPT !.size = @ - 1], next, prev_offset, t)
            ELSE SSweep(n, f, h, next, current, t)

\* the count FastStack::removeExpired returns
FastStack_removeExpired_ret ==
    sheader.size - SSweep(snodes, sfree, sheader, sheader.front_offset,
                          NULL_OFFSET, now).h.size

\* FastStack::removeExpired, called while no push or pop is in progress
SRemoveExpired(t) ==
    /\ t \in sthreads
    /\ \A u \in SThreads : spc[u] = "idle"
    /\ LET r == SSweep(snodes, sfree, sheader, sheader.front_offset, NULL_OFFSET, now)
       IN /\ snodes' = r.n
          /\ sfree' = r.f
          /\ sheader' = IF r.h.size # sheader.size
                        THEN [r.h EXCEPT !.aba_tag = @ + 1] ELSE r.h
    /\ s_ref' = SelectSeq(s_ref, QGhostAlive)
    /\ UNCHANGED <<now, sthreads, spc, sloc, s_gid, s_next_id, s_obs>>

\* FastStack::clear takes header_->global_mutex, which push and pop do not
\* take, and loads front_offset into current
SClearBegin(t) ==
    /\ t \in sthreads /\ spc[t] = "idle"
    /\ \A u \in sthreads : spc[u] # "clear_loop"
    /\ sheader.aba_tag < MaxClearTag
    /\ SGoto(t, "clear_loop", [SLocals EXCEPT !.next = sheader.front_offset])
    /\ UNCHANGED <<now, snodes, sfree, sheader, sthreads, s_ref, s_gid, s_next_id, s_obs>>

\* clear, one pass of its loop: next = node->next_offset, mark_deleted,
\* free_node, current = next
SClearFree(t) ==
    /\ t \in sthreads /\ spc[t] = "clear_loop"
    /\ sloc[t].next >= 0
    /\ snodes' = [snodes EXCEPT ![sloc[t].next] = mark_deleted(@)]
    /\ sfree' = sfree \cup {sloc[t].next}
    /\ SGoto(t, "clear_loop", [sloc[t] EXCEPT !.next = snodes[sloc[t].next].next_offset])
    /\ UNCHANGED <<now, sheader, sthreads, s_ref, s_gid, s_next_id, s_obs>>

\* clear after its loop: front_offset.store(NULL_OFFSET), size.store(0),
\* aba_tag.fetch_add(1), and the mutex is released
SClearFinish(t) ==
    /\ t \in sthreads /\ spc[t] = "clear_loop"
    /\ sloc[t].next < 0
    /\ sheader' = [sheader EXCEPT !.front_offset = NULL_OFFSET, !.size = 0,
                                  !.aba_tag = @ + 1]
    /\ s_ref' = <<>>
    /\ SGoto(t, "idle", SLocals)
    /\ UNCHANGED <<now, snodes, sfree, sthreads, s_gid, s_next_id, s_obs>>

RECURSIVE SPeekFrom(_, _, _, _)
\* peek's loop: the first alive node from top on, expired ones are skipped
SPeekFrom(n, top, t, fuel) ==
    IF top < 0 \/ fuel = 0 THEN Ret(FALSE, <<>>)
    ELSE IF is_alive(n[top], t) THEN Ret(TRUE, copy_from_node(n[top], t))
    ELSE SPeekFrom(n, n[top].next_offset, t, fuel - 1)

\* FastStack::peek on the current state
FastStack_peek == SPeekFrom(snodes, sheader.front_offset, now, MaxStackNodes)

RECURSIVE SSearchFrom(_, _, _, _, _, _)
\* search's loop: distance counts the alive nodes passed
SSearchFrom(n, top, data, distance, t, fuel) ==
    IF top < 0 \/ fuel = 0 THEN -1
    ELSE IF is_alive(n[top], t)
         THEN IF /\ n[top].hash_code = compute_hash(data)
                 /\ n[top].data_size = Len(data)
                 /\ n[top].data = data
              THEN distance
              ELSE SSearchFrom(n, n[top].next_offset, data, distance + 1, t, fuel - 1)
         ELSE SSearchFrom(n, n[top].next_offset, data, distance, t, fuel - 1)

\* FastStack::search on the current state
FastStack_search(data) ==
    IF Len(data) = 0 THEN -1
    ELSE SSearchFrom(snodes, sheader.front_offset, data, 1, now, MaxStackNodes)

\* FastStack::FastStack on a new file, shared by the threads th
SInit(th) ==
         /\ snodes = [o \in SOffsets |-> ShmNode]
         /\ sfree = SOffsets
         /\ sheader = StackHeader
         /\ sthreads = th
         /\ spc = [t \in SThreads |-> "idle"]
         /\ sloc = [t \in SThreads |-> SLocals]
         /\ s_ref = <<>>
         /\ s_gid = [o \in SOffsets |-> 0]
         /\ s_next_id = 1
         /\ s_obs = [t \in SThreads |-> SObs]

(***************************************************************************)
(* fc_map.cpp : FastMap.  Writers hold the mutex of the key's bucket;      *)
(* get, containsKey and getTTL take no lock.  A writer is therefore a      *)
(* sequence of steps: it locks and searches the bucket, decides, and (when *)
(* it overwrites a value in place) copies byte by byte, so that a reader   *)
(* can run in between.                                                     *)
(***************************************************************************)
MThreads == {1, 2}

MOffsets == 0..(MaxMapNodes - 1)

\* HashTableHeader::bucket_count, a power of two
BucketCount == 2 ^ BucketBits

MBuckets == 0..(BucketCount - 1)

\* get_bucket: hash & (bucket_count - 1), the low bits of the hash
bucket_index(hash) == hash[2] % BucketCount

MKeys == {<<1>>, <<2>>, <<3>>}

\* ShmKeyValue() constructor; data is the key bytes followed by the value
\* bytes, key_size and value_size are their lengths
ShmKeyValue ==
    [state |-> STATE_EMPTY, hash_code |-> <<0, 0>>,
     ttl_seconds |-> TTL_INFINITE, expires_at |-> 0,
     next_offset |-> NULL_OFFSET, prev_offset |-> NULL_OFFSET,
     key |-> <<>>, value |-> <<>>]

copy_to_kv(kv, key, value, ttl, t) ==
    mark_valid(set_ttl([kv EXCEPT !.hash_code = compute_hash(key),
                                  !.key = key, !.value = value], ttl, t))

\* ShmBucket() without its mutex
ShmBucket == [head_offset |-> NULL_OFFSET, size |-> 0]

VARIABLES mnodes, mfree, mbuckets, msize, mmutex, mthreads, mpc, mloc,
          m_ref, m_ops, m_legal

mvars == <<mnodes, mfree, mbuckets, msize, mmutex, mthreads, mpc, mloc,
           m_ref, m_ops, m_legal>>

\* the shared state of the map as one value
MS == [n |-> mnodes, f |-> mfree, b |-> mbuckets, size |-> msize]

RECURSIVE MFindFrom(_, _, _, _, _)
\* find_in_bucket's loop: the first record with the key's hash and bytes,
\* alive or not, and the record before it in the chain
MFindFrom(n, current, prev, key, fuel) ==
    IF current < 0 \/ fuel = 0 THEN [kv |-> NULL_OFFSET, prev |-> prev]
    ELSE IF n[current].hash_code = compute_hash(key) /\ n[current].key = key
         THEN [kv |-> current, prev |-> prev]
         ELSE MFindFrom(n, n[current].next_offset, current, key, fuel - 1)

find_in_bucket(s, key) ==
    MFindFrom(s.n, s.b[bucket_index(compute_hash(key))].head_offset,
              NULL_OFFSET, key, MaxMapNodes)

\* take the record at off out of its chain, mark it deleted, free it
MUnlink(s, bi, off, prev) ==
    LET next == s.n[off].next_offset
        n1 == IF prev >= 0 THEN [s.n EXCEPT ![prev].next_offset = next] ELSE s.n
        n2 == IF next >= 0 THEN [n1 EXCEPT ![next].prev_offset = prev] ELSE n1
    IN [n |-> [n2 EXCEPT ![off] = mark_deleted(@)],
        f |-> s.f \cup {off},
        b |-> [s.b EXCEPT ![bi].head_offset = IF prev >= 0 THEN @ ELSE next,
                          ![bi].size = @ - 1],
        size |-> s.size - 1]

RECURSIVE BSweep(_, _, _, _)
\* removeExpired of the map and of the set, the while loop over the chain
\* of bucket bi: an expired record is unlinked by its own prev_offset,
\* marked deleted and freed, and bucket->size and header_->size go down
BSweep(s, bi, current, t) ==
    IF current < 0 THEN s
    ELSE LET next == s.n[current].next_offset
         IN IF is_expired(s.n[current], t)
            THEN BSweep(MUnlink(s, bi, current, s.n[current].prev_offset), bi, next, t)
            ELSE BSweep(s, bi, next, t)

RECURSIVE BSweepAll(_, _, _)
\* the for loop over the buckets from bi on
BSweepAll(s, bi, t) ==
    IF bi >= BucketCount THEN s
    ELSE BSweepAll(BSweep(s, bi, s.b[bi].head_offset, t), bi + 1, t)

\* link a new record at the head of its bucket
MInsertHead(s, bi, off, kv) ==
    LET old_head == s.b[bi].head_offset
        n1 == [s.n EXCEPT ![off] = [kv EXCEPT !.next_offset = old_head,
                                              !.prev_offset = NULL_OFFSET]]
        n2 == IF old_head >= 0 THEN [n1 EXCEPT ![old_head].prev_offset = off] ELSE n1
    IN [n |-> n2, f |-> s.f \ {off},
        b |-> [s.b EXCEPT ![bi].head_offset = off, ![bi].size = @ + 1],
        size |-> s.size + 1]

\* a value of another size: a new record takes the place of the existing one
\* (MReallocate_unlinked leaves the new record out of the chain)
MReallocate_unlinked(s, bi, existing, off, kv) ==
    [n |-> [s.n EXCEPT ![off] = kv, ![existing] = mark_deleted(@)],
     f |-> (s.f \ {off}) \cup {existing},
     b |-> s.b,
     size |-> s.size]

MReallocate(s, bi, existing, off, kv) ==
    LET prev == s.n[existing].prev_offset
        next == s.n[existing].next_offset
        n1 == [s.n EXCEPT ![off] = [kv EXCEPT !.prev_offset = prev,
                                              !.next_offset = next]]
        n2 == IF prev >= 0 THEN [n1 EXCEPT ![prev].next_offset = off] ELSE n1
        n3 == IF next >= 0 THEN [n2 EXCEPT ![next].prev_offset = off] ELSE n2
    IN [n |-> [n3 EXCEPT ![existing] = mark_deleted(@)],
        f |-> (s.f \ {off}) \cup {existing},
        b |-> [s.b EXCEPT ![bi].head_offset = IF prev >= 0 THEN @ ELSE off],
        size |-> s.size]

MSetState(s) == /\ mnodes' = s.n
                /\ mfree' = s.f
                /\ mbuckets' = s.b
                /\ msize' = s.size

\* a call: the operation and its arguments (old is replace's expected value)
MCall(op, key, value, old, ttl) ==
    [op |-> op, key |-> key, value |-> value, old |-> old, ttl |-> ttl]

\* the locals of a call: existing / kv and prev as find_in_bucket left them
\* (current in a reader), i the bytes copied so far, n the value_size a
\* reader read, ret the bool returned and the out vector
MLocals == [in |-> MCall("none", <<>>, <<>>, <<>>, TTL_INFINITE),
            kv |-> NULL_OFFSET, prev |-> NULL_OFFSET, i |-> 0, n |-> 0,
            ret |-> Ret(FALSE, <<>>)]

\* The reference map: per key the value last written and the instant it
\* stops being visible.  A writer changes it when its write is complete.
MRefAbsent == [present |-> FALSE, val |-> <<>>, exp |-> 0]
MRefWrite(k, value, ttl, t) ==
    m_ref' = [m_ref EXCEPT ![k] = [present |-> TRUE, val |-> value,
                                   exp |-> IF ttl < 0 THEN 0 ELSE t + ttl * TicksPerSec]]
MRefGetIn(ref, k, t) ==
    IF k \in MKeys /\ ref[k].present /\ (ref[k].exp = 0 \/ t < ref[k].exp)
    THEN Ret(TRUE, ref[k].val) ELSE Ret(FALSE, <<>>)
MRefGet(k) == MRefGetIn(m_ref, k, now)

MBucketOf(key) == bucket_index(compute_hash(key))

\* IpcScopedLock: the mutex of the bucket can be taken when nobody holds it
\* (mutex_ignored is a mutex that excludes nobody)
mutex_ignored(bi) == TRUE

mutex_free(bi) == mmutex[bi] = 0

\* leaving the scope of the lock and returning
MReturn(t, ok, out) ==
    /\ mmutex' = [mmutex EXCEPT ![MBucketOf(mloc[t].in.key)] = 0]
    /\ mpc' = [mpc EXCEPT ![t] = "idle"]
    /\ mloc' = [mloc EXCEPT ![t] = [MLocals EXCEPT !.in = mloc[t].in,
                                                   !.ret = Ret(ok, out)]]

\* allocate_kv throws: nothing has been stored, the lock is released
MThrow(t) == /\ MReturn(t, FALSE, <<>>)
             /\ UNCHANGED <<mnodes, mfree, mbuckets, msize, m_ref>>

\* every writer: the size check, compute_hash, get_bucket, the scoped lock
\* and find_in_bucket
MLockFind(t, in) ==
    /\ t \in mthreads /\ mpc[t] = "idle"
    /\ m_ops < MaxMapOps
    /\ m_ops' = m_ops + 1
    /\ IF Len(in.key) = 0
       THEN /\ mloc' = [mloc EXCEPT ![t] = [MLocals EXCEPT !.in = in]]
            /\ UNCHANGED <<mmutex, mpc>>
       ELSE /\ mutex_free(MBucketOf(in.key))
            /\ mmutex' = [mmutex EXCEPT ![MBucketOf(in.key)] = t]
            /\ mpc' = [mpc EXCEPT ![t] = in.op]
            /\ LET found == find_in_bucket(MS, in.key)
               IN mloc' = [mloc EXCEPT ![t] = [MLocals EXCEPT !.in = in,
                                                              !.kv = found.kv,
                                                              !.prev = found.prev]]
    /\ UNCHANGED <<now, mnodes, mfree, mbuckets, msize, mthreads, m_ref>>

\* the value is overwritten in place: the memcpy is about to start
MInPlace(t) ==
    /\ mpc' = [mpc EXCEPT ![t] = IF Len(mloc[t].in.value) = 0 THEN "finish" ELSE "copy"]
    /\ UNCHANGED <<mnodes, mfree, mbuckets, msize, mmutex, mloc, m_ref>>

\* a record of another size replaces the existing one
MReplaceRecord(t) ==
    LET in == mloc[t].in
    IN IF mfree = {} THEN MThrow(t)
       ELSE \E off \in allocate(mfree) :
            /\ MSetState(MReallocate(MS, MBucketOf(in.key), mloc[t].kv, off,
                            copy_to_kv(ShmKeyValue, in.key, in.value, in.ttl, now)))
            /\ MRefWrite(in.key, in.value, in.ttl, now)
            /\ MReturn(t, TRUE, <<>>)

\* a new record at the head of the bucket, in the state s
MAddNew(t, s) ==
    LET in == mloc[t].in
    IN IF s.f = {}
       THEN /\ MSetState(s)
            /\ MReturn(t, FALSE, <<>>)
            /\ m_ref' = [m_ref EXCEPT ![in.key] = MRefAbsent]
       ELSE \E off \in allocate(s.f) :
            /\ MSetState(MInsertHead(s, MBucketOf(in.key), off,
                            copy_to_kv(ShmKeyValue, in.key, in.value, in.ttl, now)))
            /\ MRefWrite(in.key, in.value, in.ttl, now)
            /\ MReturn(t, TRUE, <<>>)

\* FastMap::put after find_in_bucket
MPut(t) ==
    /\ t \in mthreads /\ mpc[t] = "put"
    /\ IF mloc[t].kv >= 0
       THEN IF Len(mnodes[mloc[t].kv].value) = Len(mloc[t].in.value)
            THEN MInPlace(t)
            ELSE MReplaceRecord(t)
       ELSE MAddNew(t, MS)
    /\ UNCHANGED <<now, mthreads, m_ops>>

\* FastMap::putIfAbsent after find_in_bucket
MPutIfAbsent(t) ==
    /\ t \in mthreads /\ mpc[t] = "putIfAbsent"
    /\ LET existing == mloc[t].kv
       IN IF existing >= 0 /\ is_alive(mnodes[existing], now)
          THEN /\ MReturn(t, FALSE, <<>>)
               /\ UNCHANGED <<mnodes, mfree, mbuckets, msize, m_ref>>
          ELSE MAddNew(t, IF existing >= 0
                          THEN MUnlink(MS, MBucketOf(mloc[t].in.key), existing,
                                       mnodes[existing].prev_offset)
                          ELSE MS)
    /\ UNCHANGED <<now, mthreads, m_ops>>

\* the mapping of the map's file as the FastMap object sees it (as qmap)
VARIABLE mfile

\* header_ and buckets_ point into the current mapping and the process runs
MValid == ~mfile.crashed /\ mfile.header_ = mfile.base

\* ShmKeyValue::total_size less the fixed part, in the units it rounds to
MRecordSize(key, value) == Len(key) + Len(value)

\* the free blocks file_->allocate can take a record of bytes from: a block
\* that was never handed out is the rest of the heap and takes any record,
\* a block freed between blocks in use has the size it was allocated with
MFitting(s, bytes) ==
    {o \in s.f : \/ s.n[o].state = STATE_EMPTY
                 \/ MRecordSize(s.n[o].key, s.n[o].value) >= bytes}

\* the first file_->allocate of putIfAbsent(key, value) throws bad_alloc
FastMap_putIfAbsent_bad_alloc(key, value) ==
    LET existing == find_in_bucket(MS, key).kv
        s1 == IF existing >= 0
              THEN MUnlink(MS, MBucketOf(key), existing, mnodes[existing].prev_offset)
              ELSE MS
    IN /\ Len(key) # 0
       /\ ~(existing >= 0 /\ is_alive(mnodes[existing], now))
       /\ MFitting(s1, MRecordSize(key, value)) = {}

\* FastMap::putIfAbsent with MMapFileManager::allocate, the whole call under
\* the mutex of the bucket: an expired record of the key is unlinked and
\* freed, then allocate_kv is called; an allocation that finds no block
\* grows the file once and allocates from the new mapping, or throws
\* MEMORY_ALLOCATION_FAILED when the grow has failed.  grow maps the file
\* anew either way; when the address differs, bucket (and with it the
\* mutex the scoped lock releases), header_ and base point into the dropped
\* mapping and their use is undefined: the process is killed, or goes on
\* with its stores not reaching the file, whose mutex stays taken.
FastMap_putIfAbsent(t, key, value, ttl) ==
    LET in == MCall("putIfAbsent", key, value, <<>>, ttl)
        bi == MBucketOf(key)
        existing == find_in_bucket(MS, key).kv
        s1 == IF existing >= 0
              THEN MUnlink(MS, bi, existing, mnodes[existing].prev_offset)
              ELSE MS
        kv == copy_to_kv(ShmKeyValue, key, value, ttl, now)
        fit == MFitting(s1, MRecordSize(key, value))
        Returns(ok) == mloc' = [mloc EXCEPT ![t] = [MLocals EXCEPT !.in = in,
                                                                  !.ret = Ret(ok, <<>>)]]
    IN /\ MValid
       /\ t \in mthreads /\ mpc[t] = "idle"
       /\ \A b \in MBuckets : mutex_free(b)
       /\ m_ops < MaxAllocOps
       /\ m_ops' = m_ops + 1
       /\ UNCHANGED <<now, mthreads, mpc>>
       /\ IF Len(key) = 0 \/ (existing >= 0 /\ is_alive(mnodes[existing], now))
          THEN /\ Returns(FALSE)
               /\ UNCHANGED <<mnodes, mfree, mbuckets, msize, mmutex, m_ref, mfile>>
          ELSE IF fit # {}
          THEN \E off \in allocate(fit) :
               /\ MSetState(MInsertHead(s1, bi, off, kv))
               /\ MRefWrite(key, value, ttl, now)
               /\ Returns(TRUE)
               /\ UNCHANGED <<mmutex, mfile>>
          ELSE \E m \in grow(mfile, 1) :
               IF m.cap = mfile.cap
               THEN \* the grow has failed and allocate throws
                    /\ MSetState(s1)
                    /\ m_ref' = [m_ref EXCEPT ![key] = MRefAbsent]
                    /\ Returns(FALSE)
                    /\ IF m.base = mfile.header_
                       THEN mfile' = m /\ UNCHANGED mmutex
                       ELSE /\ mfile' \in {m, [m EXCEPT !.crashed = TRUE]}
                            /\ mmutex' = [mmutex EXCEPT ![bi] = t]
               ELSE \E off \in allocate(mfile.cap..(m.cap - 1)) :
                    LET s2 == [s1 EXCEPT !.f = @ \cup (mfile.cap..(m.cap - 1))]
                    IN IF m.base = mfile.header_
                       THEN /\ MSetState(MInsertHead(s2, bi, off, kv))
                            /\ MRefWrite(key, value, ttl, now)
                            /\ Returns(TRUE)
                            /\ mfile' = m
                            /\ UNCHANGED mmutex
                       ELSE /\ MSetState([s2 EXCEPT !.n[off] = kv, !.f = @ \ {off}])
                            /\ m_ref' = [m_ref EXCEPT ![key] = MRefAbsent]
                            /\ Returns(FALSE)
                            /\ mfile' \in {m, [m EXCEPT !.crashed = TRUE]}
                            /\ mmutex' = [mmutex EXCEPT ![bi] = t]

\* both replace functions after find_in_bucket; checked says whether the
\* current value is compared with old_value
MReplaceBody(t, checked) ==
    LET kv == mloc[t].kv
        in == mloc[t].in
    IN IF \/ kv < 0
          \/ ~is_alive(mnodes[kv], now)
          \/ (checked /\ mnodes[kv].value # in.old)
       THEN /\ MReturn(t, FALSE, <<>>)
            /\ UNCHANGED <<mnodes, mfree, mbuckets, msize, m_ref>>
       ELSE IF Len(mnodes[kv].value) = Len(in.value)
            THEN MInPlace(t)
            ELSE MReplaceRecord(t)

\* FastMap::replace(key, value, ttl)
MReplace(t) ==
    /\ t \in mthreads /\ mpc[t] = "replace"
    /\ MReplaceBody(t, FALSE)
    /\ UNCHANGED <<now, mthreads, m_ops>>

\* FastMap::replace(key, old_value, new_value, ttl)
\* (MReplaceIf_unchecked does not compare the current value with old_value)
MReplaceIf_unchecked(t) ==
    /\ t \in mthreads /\ mpc[t] = "replaceIf"
    /\ MReplaceBody(t, FALSE)
    /\ UNCHANGED <<now, mthreads, m_ops>>

MReplaceIf(t) ==
    /\ t \in mthreads /\ mpc[t] = "replaceIf"
    /\ MReplaceBody(t, TRUE)
    /\ UNCHANGED <<now, mthreads, m_ops>>

\* std::memcpy(existing->data + key_size, value, value_size), a byte a step
MCopyByte(t) ==
    /\ t \in mthreads /\ mpc[t] = "copy"
    /\ LET i == mloc[t].i + 1
       IN /\ mnodes' = [mnodes EXCEPT ![mloc[t].kv].value[i] = mloc[t].in.value[i]]
          /\ mloc' = [mloc EXCEPT ![t].i = i]
          /\ mpc' = [mpc EXCEPT ![t] = IF i = Len(mloc[t].in.value) THEN "finish" ELSE "copy"]
    /\ UNCHANGED <<now, mfree, mbuckets, msize, mmutex, mthreads, m_ref, m_ops>>

\* after the memcpy: set_ttl, and in put mark_valid; return true
MFinish(t) ==
    /\ t \in mthreads /\ mpc[t] = "finish"
    /\ LET in == mloc[t].in
           e == set_ttl(mnodes[mloc[t].kv], in.ttl, now)
       IN /\ mnodes' = [mnodes EXCEPT ![mloc[t].kv] =
                            IF in.op = "put" THEN mark_valid(e) ELSE e]
          /\ MRefWrite(in.key, in.value, in.ttl, now)
    /\ MReturn(t, TRUE, <<>>)
    /\ UNCHANGED <<now, mfree, mbuckets, msize, mthreads, m_ops>>

\* FastMap::remove(key, out_value) after find_in_bucket
MRemove(t) ==
    /\ t \in mthreads /\ mpc[t] = "remove"
    /\ LET kv == mloc[t].kv
       IN IF kv < 0
          THEN /\ MReturn(t, FALSE, <<>>)
               /\ UNCHANGED <<mnodes, mfree, mbuckets, msize, m_ref>>
          ELSE /\ MSetState(MUnlink(MS, MBucketOf(mloc[t].in.key), kv, mloc[t].prev))
               /\ MReturn(t, TRUE, IF is_alive(mnodes[kv], now)
                                   THEN mnodes[kv].value ELSE <<>>)
               /\ m_ref' = [m_ref EXCEPT ![mloc[t].in.key] = MRefAbsent]
    /\ UNCHANGED <<now, mthreads, m_ops>>

\* FastMap::removeExpired called while no other call is in progress
MRemoveExpired(t) ==
    /\ t \in mthreads
    /\ \A u \in MThreads : mpc[u] = "idle"
    /\ \A b \in MBuckets : mutex_free(b)
    /\ m_ops < MaxMapOps
    /\ m_ops' = m_ops + 1
    /\ MSetState(BSweepAll(MS, 0, now))
    /\ UNCHANGED <<now, mmutex, mthreads, mpc, mloc, m_ref>>

\* the count FastMap::removeExpired returns: removed++ beside each
\* header_->size.fetch_sub(1)
FastMap_removeExpired_ret == msize - BSweepAll(MS, 0, now).size

\* FastMap::clear called while no other call is in progress: bucket after
\* bucket under its mutex every record of the chain is marked deleted and
\* freed and the bucket's head and size are reset, then header_->size = 0
MClear(t) ==
    /\ t \in mthreads
    /\ \A u \in MThreads : mpc[u] = "idle"
    /\ \A b \in MBuckets : mutex_free(b)
    /\ m_ops < MaxMapOps
    /\ m_ops' = m_ops + 1
    /\ LET linked == UNION {{QWalk(mnodes, mbuckets[b].head_offset, MaxMapNodes + 1)[i] :
                               i \in 1..Len(QWalk(mnodes, mbuckets[b].head_offset,
                                                  MaxMapNodes + 1))} : b \in MBuckets}
       IN /\ mnodes' = [o \in MOffsets |->
                           IF o \in linked THEN mark_deleted(mnodes[o]) ELSE mnodes[o]]
          /\ mfree' = mfree \cup linked
    /\ mbuckets' = [b \in MBuckets |-> ShmBucket]
    /\ msize' = 0
    /\ m_ref' = [k \in MKeys |-> MRefAbsent]
    /\ UNCHANGED <<now, mmutex, mthreads, mpc, mloc>>

\* the setTTL that does not test is_alive
MSetTTL_unchecked(t) ==
    /\ t \in mthreads /\ mpc[t] = "setTTL"
    /\ LET in == mloc[t].in
           kv == MFindFrom(mnodes, mbuckets[MBucketOf(in.key)].head_offset,
                           NULL_OFFSET, in.key, MaxMapNodes).kv
       IN IF kv < 0
          THEN /\ MReturn(t, FALSE, <<>>)
               /\ UNCHANGED <<now, mnodes, m_ref>>
          ELSE \E t2 \in Later(now) :
               /\ mnodes' = [mnodes EXCEPT ![kv] = set_ttl(@, in.ttl, t2)]
               /\ MRefWrite(in.key, m_ref[in.key].val, in.ttl, t2)
               /\ now' = t2
               /\ MReturn(t, TRUE, <<>>)
    /\ UNCHANGED <<mfree, mbuckets, msize, mthreads, m_ops>>

\* FastMap::setTTL after find_in_bucket; set_ttl reads the clock after
\* is_alive has read it
MSetTTL(t) ==
    /\ t \in mthreads /\ mpc[t] = "setTTL"
    /\ LET kv == mloc[t].kv
           in == mloc[t].in
       IN IF kv < 0 \/ ~is_alive(mnodes[kv], now)
          THEN /\ MReturn(t, FALSE, <<>>)
               /\ UNCHANGED <<now, mnodes, m_ref>>
          ELSE \E t2 \in Later(now) :
               /\ mnodes' = [mnodes EXCEPT ![kv] = set_ttl(@, in.ttl, t2)]
               /\ MRefWrite(in.key, m_ref[in.key].val, in.ttl, t2)
               /\ now' = t2
               /\ MReturn(t, TRUE, <<>>)
    /\ UNCHANGED <<mfree, mbuckets, msize, mthreads, m_ops>>

\* the bytes a value can be made of
MBytes == {1, 2, 3}

\* a reader returns: it holds no lock
MReaderReturn(t, ok, out) ==
    /\ mpc' = [mpc EXCEPT ![t] = "idle"]
    /\ mloc' = [mloc EXCEPT ![t] = [MLocals EXCEPT !.in = mloc[t].in,
                                                   !.ret = Ret(ok, out)]]

\* FastMap::get to the load of the head of the bucket
MGetBegin(t, key) ==
    /\ t \in mthreads /\ mpc[t] = "idle"
    /\ m_ops < MaxMapOps
    /\ m_ops' = m_ops + 1
    /\ LET in == MCall("get", key, <<>>, <<>>, TTL_INFINITE)
       IN IF Len(key) = 0
          THEN /\ mloc' = [mloc EXCEPT ![t] = [MLocals EXCEPT !.in = in]]
               /\ UNCHANGED mpc
          ELSE /\ mpc' = [mpc EXCEPT ![t] = "get_check"]
               /\ mloc' = [mloc EXCEPT ![t] =
                      [MLocals EXCEPT !.in = in,
                                      !.kv = mbuckets[MBucketOf(key)].head_offset]]
    /\ UNCHANGED <<now, mnodes, mfree, mbuckets, msize, mmutex, mthreads, m_ref>>

\* one turn of the loop of get: the test of the record at current, then
\* the read of kv->value_size or the load of next_offset
MGetCheck(t) ==
    /\ t \in mthreads /\ mpc[t] = "get_check"
    /\ LET current == mloc[t].kv
           key == mloc[t].in.key
       IN IF current < 0 THEN MReaderReturn(t, FALSE, <<>>)
          ELSE IF /\ is_alive(mnodes[current], now)
                  /\ mnodes[current].hash_code = compute_hash(key)
                  /\ mnodes[current].key = key
               THEN IF Len(mnodes[current].value) = 0
                    THEN MReaderReturn(t, TRUE, <<>>)
                    ELSE /\ mpc' = [mpc EXCEPT ![t] = "get_copy"]
                         /\ mloc' = [mloc EXCEPT ![t].n = Len(mnodes[current].value)]
               ELSE /\ mloc' = [mloc EXCEPT ![t].kv = mnodes[current].next_offset]
                    /\ UNCHANGED mpc
    /\ UNCHANGED <<now, mnodes, mfree, mbuckets, msize, mmutex, mthreads, m_ref, m_ops>>

\* std::memcpy(out_value.data(), kv->data + kv->key_size, kv->value_size),
\* a byte a step; behind the end of a value that has become shorter in the
\* meantime lies any byte
MGetCopy(t) ==
    /\ t \in mthreads /\ mpc[t] = "get_copy"
    /\ LET kv == mnodes[mloc[t].kv]
           i == mloc[t].i + 1
       IN \E b \in (IF i <= Len(kv.value) THEN {kv.value[i]} ELSE MBytes) :
          LET out == Append(mloc[t].ret.data, b)
          IN IF i = mloc[t].n
             THEN MReaderReturn(t, TRUE, out)
             ELSE /\ mloc' = [mloc EXCEPT ![t].i = i, ![t].ret.data = out]
                  /\ UNCHANGED mpc
    /\ UNCHANGED <<now, mnodes, mfree, mbuckets, msize, mmutex, mthreads, m_ref, m_ops>>

RECURSIVE MGetFrom(_, _, _, _, _)
RECURSIVE MCountFrom(_, _, _, _)
RECURSIVE MSumBuckets(_)
\* the reads of one instant: get, containsKey, getTTL and size walk the
\* chains and test each record with is_alive
MGetFrom(n, current, key, t, fuel) ==
    IF current < 0 \/ fuel = 0 THEN NULL_OFFSET
    ELSE IF /\ is_alive(n[current], t)
            /\ n[current].hash_code = compute_hash(key)
            /\ n[current].key = key
         THEN current
         ELSE MGetFrom(n, n[current].next_offset, key, t, fuel - 1)

MLookupIn(n, b, key, t) ==
    IF Len(key) = 0 THEN NULL_OFFSET
    ELSE MGetFrom(n, b[MBucketOf(key)].head_offset, key, t, MaxMapNodes)

MLookup(key) == MLookupIn(mnodes, mbuckets, key, now)

FastMap_getIn(n, b, key, t) ==
    IF MLookupIn(n, b, key, t) < 0 THEN Ret(FALSE, <<>>)
    ELSE Ret(TRUE, n[MLookupIn(n, b, key, t)].value)

FastMap_get(key) == FastMap_getIn(mnodes, mbuckets, key, now)

FastMap_containsKey(key) == MLookup(key) >= 0

FastMap_getTTL(key) ==
    IF MLookup(key) < 0 THEN 0
    ELSE remaining_ttl_seconds(mnodes[MLookup(key)], now)

MCountFrom(n, current, t, fuel) ==
    IF current < 0 \/ fuel = 0 THEN 0
    ELSE (IF is_alive(n[current], t) THEN 1 ELSE 0)
         + MCountFrom(n, n[current].next_offset, t, fuel - 1)

MSumBuckets(i) ==
    IF i >= BucketCount THEN 0
    ELSE MCountFrom(mnodes, mbuckets[i].head_offset, now, MaxMapNodes) + MSumBuckets(i + 1)

FastMap_size == MSumBuckets(0)

\* what a get of thread t may answer: the reference map at an instant of
\* the call, or the value a writer is storing in place at that instant
MLegalAt(ref, pc, loc, t, time) ==
    {MRefGetIn(ref, loc[t].in.key, time)}
    \cup {Ret(TRUE, loc[w].in.value) :
            w \in {x \in MThreads : /\ pc[x] \in {"copy", "finish"}
                                    /\ loc[x].in.key = loc[t].in.key}}

MObserve ==
    m_legal' = [t \in MThreads |->
                  IF mpc[t] \in {"get_check", "get_copy"}
                  THEN m_legal[t] \cup MLegalAt(m_ref', mpc', mloc', t, now')
                  ELSE IF mloc'[t].in.op = "get" /\ mloc'[t] # mloc[t]
                       THEN MLegalAt(m_ref', mpc', mloc', t, now')
                       ELSE m_legal[t]]

MInit(th) ==
    /\ mnodes = [o \in MOffsets |-> ShmKeyValue]
    /\ mfree = MOffsets
    /\ mbuckets = [b \in MBuckets |-> ShmBucket]
    /\ msize = 0
    /\ mmutex = [b \in MBuckets |-> 0]
    /\ mthreads = th
    /\ mpc = [t \in MThreads |-> "idle"]
    /\ mloc = [t \in MThreads |-> MLocals]
    /\ m_ref = [k \in MKeys |-> MRefAbsent]
    /\ m_ops = 0
    /\ m_legal = [t \in MThreads |-> {}]

MValues == {<<1, 1>>, <<2, 2>>, <<3>>}

\* the calls of one thread
MCallsSeq ==
    {MCall("put", <<1>>, <<1, 1>>, <<>>, TTL_INFINITE),
     MCall("put", <<1>>, <<2, 2>>, <<>>, 1),
     MCall("put", <<1>>, <<3>>, <<>>, 0),
     MCall("put", <<3>>, <<3>>, <<>>, TTL_INFINITE),
     MCall("put", <<2>>, <<1, 1>>, <<>>, 1),
     MCall("put", <<>>, <<3>>, <<>>, 1),
     MCall("putIfAbsent", <<1>>, <<2, 2>>, <<>>, TTL_INFINITE),
     MCall("putIfAbsent", <<3>>, <<1, 1>>, <<>>, 1),
     MCall("replace", <<1>>, <<3>>, <<>>, 1),
     MCall("replace", <<1>>, <<1, 1>>, <<>>, TTL_INFINITE),
     MCall("replaceIf", <<1>>, <<2, 2>>, <<1, 1>>, TTL_INFINITE),
     MCall("replaceIf", <<1>>, <<3>>, <<2, 2>>, 1),
     MCall("remove", <<1>>, <<>>, <<>>, TTL_INFINITE),
     MCall("remove", <<3>>, <<>>, <<>>, TTL_INFINITE),
     MCall("setTTL", <<1>>, <<>>, <<>>, TTL_INFINITE),
     MCall("setTTL", <<1>>, <<>>, <<>>, 1)}

\* the calls of a thread that fills the file: short and long values, one
\* of them expiring after a second
MCallsAlloc ==
    {MCall("putIfAbsent", <<1>>, <<3>>, <<>>, 1),
     MCall("putIfAbsent", <<1>>, <<3>>, <<>>, TTL_INFINITE),
     MCall("putIfAbsent", <<1>>, <<2, 2>>, <<>>, TTL_INFINITE),
     MCall("putIfAbsent", <<2>>, <<1, 1>>, <<>>, TTL_INFINITE),
     MCall("putIfAbsent", <<3>>, <<1, 1>>, <<>>, 1),
     MCall("putIfAbsent", <<>>, <<3>>, <<>>, TTL_INFINITE)}

\* the calls of concurrent threads
MCallsConc ==
    {MCall("put", <<1>>, <<1, 1>>, <<>>, TTL_INFINITE),
     MCall("put", <<1>>, <<2, 2>>, <<>>, 1),
     MCall("put", <<3>>, <<3>>, <<>>, TTL_INFINITE),
     MCall("putIfAbsent", <<1>>, <<1, 1>>, <<>>, TTL_INFINITE),
     MCall("putIfAbsent", <<1>>, <<2, 2>>, <<>>, 1),
     MCall("putIfAbsent", <<1>>, <<3>>, <<>>, 0),
     MCall("replaceIf", <<1>>, <<2, 2>>, <<1, 1>>, TTL_INFINITE),
     MCall("replaceIf", <<1>>, <<3>>, <<1, 1>>, TTL_INFINITE),
     MCall("replace", <<1>>, <<2, 2>>, <<>>, TTL_INFINITE),
     MCall("remove", <<1>>, <<>>, <<>>, TTL_INFINITE),
     MCall("setTTL", <<1>>, <<>>, <<>>, 1)}


(***************************************************************************)
(* fc_set.cpp : FastSet.  add, remove and setTTL hold the mutex of the     *)
(* bucket of the element from find_in_bucket to their return, so each is   *)
(* one step; contains, getTTL and size take no lock.  The records are      *)
(* ShmNode, the buckets ShmBucket.  h_ref is the reference set: for each    *)
(* element whether it was added and not removed, and the instant it stops  *)
(* being visible; h_ret is what the last call returned.                    *)
(***************************************************************************)
HOffsets == 0..(MaxSetNodes - 1)
HElems == {<<1>>, <<2>>, <<3>>}
HInputs == {[data |-> <<1>>, ttl |-> TTL_INFINITE], [data |-> <<1>>, ttl |-> 1],
            [data |-> <<1>>, ttl |-> 0], [data |-> <<3>>, ttl |-> 1],
            [data |-> <<2>>, ttl |-> TTL_INFINITE], [data |-> <<>>, ttl |-> 1]}

VARIABLES hnodes, hfree, hbuckets, hsize, hclear, h_ref, h_ops, h_ret

hvars == <<hnodes, hfree, hbuckets, hsize, hclear, h_ref, h_ops, h_ret>>

HS == [n |-> hnodes, f |-> hfree, b |-> hbuckets, size |-> hsize]

HCall(op, data, ok) == [op |-> op, data |-> data, ok |-> ok]

RECURSIVE HFindFrom(_, _, _, _, _, _)
HFindFrom(n, current, prev, data, t, fuel) ==
    IF current < 0 \/ fuel = 0 THEN [node |-> NULL_OFFSET, prev |-> prev]
    ELSE IF QMatches(n[current], data, t)
         THEN [node |-> current, prev |-> prev]
         ELSE HFindFrom(n, n[current].next_offset, current, data, t, fuel - 1)

\* FastSet::find_in_bucket: the first record of the chain that is alive and
\* holds the bytes (FastSet_find_nothing never finds one)
FastSet_find_nothing(n, b, data, t) == [node |-> NULL_OFFSET, prev |-> NULL_OFFSET]

FastSet_find_in_bucket(n, b, data, t) ==
    HFindFrom(n, b[MBucketOf(data)].head_offset, NULL_OFFSET, data, t, MaxSetNodes)

HSetState(s) == /\ hnodes' = s.n
                /\ hfree' = s.f
                /\ hbuckets' = s.b
                /\ hsize' = s.size

HRefWrite(data, ttl, t) ==
    h_ref' = [h_ref EXCEPT ![data] = [present |-> TRUE,
                                      exp |-> IF ttl < 0 THEN 0 ELSE t + ttl * TicksPerSec]]

HRefAliveAt(ref, data, t) ==
    /\ data \in HElems
    /\ ref[data].present
    /\ (ref[data].exp = 0 \/ t < ref[data].exp)

HReturn(op, data, ok) ==
    /\ h_ret' = HCall(op, data, ok)
    /\ h_ops' = h_ops + 1

HUnchangedSet == UNCHANGED <<hnodes, hfree, hbuckets, hsize, h_ref>>

\* FastSet::add; find_in_bucket reads the clock first, the is_alive of add
\* and set_ttl read it after
HAdd(data, ttl) ==
    /\ h_ops < MaxSetOps
    /\ IF Len(data) = 0
       THEN HReturn("add", data, FALSE) /\ HUnchangedSet /\ UNCHANGED now
       ELSE \E t2 \in Later(now) : \E t3 \in Later(t2) :
            LET existing == FastSet_find_in_bucket(hnodes, hbuckets, data, now).node
            IN IF existing >= 0
               THEN IF is_alive(hnodes[existing], t2)
                    THEN HReturn("add", data, FALSE) /\ HUnchangedSet /\ now' = t2
                    ELSE /\ hnodes' = [hnodes EXCEPT ![existing] =
                                          mark_valid(set_ttl(@, ttl, t3))]
                         /\ HRefWrite(data, ttl, t3)
                         /\ HReturn("add", data, TRUE)
                         /\ now' = t3
                         /\ UNCHANGED <<hfree, hbuckets, hsize>>
               ELSE IF hfree = {}
                    THEN HReturn("add", data, FALSE) /\ HUnchangedSet /\ now' = t2
                    ELSE \E off \in allocate(hfree) :
                         /\ HSetState(MInsertHead(HS, MBucketOf(data), off,
                                         copy_to_node(ShmNode, data, ttl, t2)))
                         /\ HRefWrite(data, ttl, t2)
                         /\ HReturn("add", data, TRUE)
                         /\ now' = t2

\* FastSet::remove
HRemove(data) ==
    /\ h_ops < MaxSetOps
    /\ IF Len(data) = 0
       THEN HReturn("remove", data, FALSE) /\ HUnchangedSet /\ UNCHANGED now
       ELSE \E t2 \in Later(now) :
            LET found == FastSet_find_in_bucket(hnodes, hbuckets, data, now)
            IN /\ now' = t2
               /\ IF found.node < 0 \/ ~is_alive(hnodes[found.node], t2)
                  THEN HReturn("remove", data, FALSE) /\ HUnchangedSet
                  ELSE /\ HSetState(MUnlink(HS, MBucketOf(data), found.node, found.prev))
                       /\ h_ref' = [h_ref EXCEPT ![data].present = FALSE]
                       /\ HReturn("remove", data, TRUE)

\* FastSet::setTTL
HSetTTL(data, ttl) ==
    /\ h_ops < MaxSetOps
    /\ IF Len(data) = 0
       THEN HReturn("setTTL", data, FALSE) /\ HUnchangedSet /\ UNCHANGED now
       ELSE \E t2 \in Later(now) : \E t3 \in Later(t2) :
            LET node == FastSet_find_in_bucket(hnodes, hbuckets, data, now).node
            IN IF node < 0 \/ ~is_alive(hnodes[node], t2)
               THEN HReturn("setTTL", data, FALSE) /\ HUnchangedSet /\ now' = t2
               ELSE /\ hnodes' = [hnodes EXCEPT ![node] = set_ttl(@, ttl, t3)]
                    /\ HRefWrite(data, ttl, t3)
                    /\ HReturn("setTTL", data, TRUE)
                    /\ now' = t3
                    /\ UNCHANGED <<hfree, hbuckets, hsize>>

\* FastSet::removeExpired
HRemoveExpired ==
    /\ h_ops < MaxSetOps
    /\ HSetState(BSweepAll(HS, 0, now))
    /\ HReturn("removeExpired", <<>>, TRUE)
    /\ UNCHANGED <<h_ref, now>>

\* the count FastSet::removeExpired returns
FastSet_removeExpired_ret == hsize - BSweepAll(HS, 0, now).size

\* FastSet::clear takes the buckets one after the other, each under its own
\* mutex, and stores header_->size = 0 after the last one under no lock.
\* hclear is the loop variable i of the call in progress: NoClear when none
\* is (a value the loop never holds), BucketCount when the loop is done
\* and the store is to come.
NoClear == BucketCount + 1

HClearBegin ==
    /\ hclear = NoClear
    /\ h_ops < MaxSetOps
    /\ hclear' = 0
    /\ h_ops' = h_ops + 1
    /\ UNCHANGED <<hnodes, hfree, hbuckets, hsize, h_ref, h_ret, now>>

\* one pass of the for loop: every node of the chain marked deleted and
\* freed, then the bucket's head and size reset
HClearBucket ==
    /\ hclear \in MBuckets
    /\ LET chain == QWalk(hnodes, hbuckets[hclear].head_offset, MaxSetNodes + 1)
           freed == {chain[j] : j \in 1..Len(chain)}
       IN /\ hnodes' = [o \in HOffsets |->
                           IF o \in freed THEN mark_deleted(hnodes[o]) ELSE hnodes[o]]
          /\ hfree' = hfree \cup freed
          /\ hbuckets' = [hbuckets EXCEPT ![hclear] = ShmBucket]
          /\ h_ref' = [x \in HElems |->
                          IF MBucketOf(x) = hclear
                          THEN [h_ref[x] EXCEPT !.present = FALSE] ELSE h_ref[x]]
    /\ hclear' = hclear + 1
    /\ UNCHANGED <<hsize, h_ops, h_ret, now>>

\* header_->size.store(0) after the loop
HClearFinish ==
    /\ hclear = BucketCount
    /\ hsize' = 0
    /\ hclear' = NoClear
    /\ UNCHANGED <<hnodes, hfree, hbuckets, h_ref, h_ops, h_ret, now>>

\* FastSet::contains
FastSet_contains(data) ==
    IF Len(data) = 0 THEN FALSE
    ELSE FastSet_find_in_bucket(hnodes, hbuckets, data, now).node >= 0

RECURSIVE HSumBuckets(_, _, _, _)
HSumBuckets(n, b, i, t) ==
    IF i >= BucketCount THEN 0
    ELSE MCountFrom(n, b[i].head_offset, t, MaxSetNodes) + HSumBuckets(n, b, i + 1, t)

\* FastSet::size
FastSet_size == HSumBuckets(hnodes, hbuckets, 0, now)

HInit == /\ hnodes = [o \in HOffsets |-> ShmNode]
         /\ hfree = HOffsets
         /\ hbuckets = [b \in MBuckets |-> ShmBucket]
         /\ hsize = 0
         /\ hclear = NoClear
         /\ h_ref = [x \in HElems |-> [present |-> FALSE, exp |-> 0]]
         /\ h_ops = 0
         /\ h_ret = HCall("none", <<>>, FALSE)

(***************************************************************************)
(* fc_list.cpp : FastList.  Every operation holds header_->global_mutex,   *)
(* so one operation is one step.  l_ref is the reference list: the         *)
(* elements linked, head first, with the instant each stops being visible. *)
(***************************************************************************)
LOffsets == 0..(MaxListNodes - 1)

\* access_cache_.last_index of an empty cache.  It is the largest size_t;
\* all the code does with it is compare it with an index, and no index
\* passed in equals it.
SIZE_MAX == -1

VARIABLES lnodes, lfree, lheader, lcache, l_ref, l_next_id, l_call

lvars == <<lnodes, lfree, lheader, lcache, l_ref, l_next_id, l_call>>

ListHeader == [head_offset |-> NULL_OFFSET, tail_offset |-> NULL_OFFSET, size |-> 0]

\* access_cache_ of the FastList object
AccessCache == [last_index |-> SIZE_MAX, last_offset |-> NULL_OFFSET]

LS == [n |-> lnodes, f |-> lfree, h |-> lheader, c |-> lcache]

\* FastList::link_node, with the size.fetch_add(1) of its callers
link_node_tail_kept(s, off, node, prev, next) ==
    LET n1 == [s.n EXCEPT ![off] = [node EXCEPT !.prev_offset = prev,
                                               !.next_offset = next]]
        n2 == IF prev >= 0 THEN [n1 EXCEPT ![prev].next_offset = off] ELSE n1
        h1 == IF prev >= 0 THEN s.h ELSE [s.h EXCEPT !.head_offset = off]
        n3 == IF next >= 0 THEN [n2 EXCEPT ![next].prev_offset = off] ELSE n2
        h2 == IF next >= 0 \/ s.h.tail_offset >= 0 THEN h1
              ELSE [h1 EXCEPT !.tail_offset = off]
    IN [n |-> n3, f |-> s.f \ {off}, h |-> [h2 EXCEPT !.size = @ + 1], c |-> s.c]

link_node(s, off, node, prev, next) ==
    LET n1 == [s.n EXCEPT ![off] = [node EXCEPT !.prev_offset = prev,
                                               !.next_offset = next]]
        n2 == IF prev >= 0 THEN [n1 EXCEPT ![prev].next_offset = off] ELSE n1
        h1 == IF prev >= 0 THEN s.h ELSE [s.h EXCEPT !.head_offset = off]
        n3 == IF next >= 0 THEN [n2 EXCEPT ![next].prev_offset = off] ELSE n2
        h2 == IF next >= 0 THEN h1 ELSE [h1 EXCEPT !.tail_offset = off]
    IN [n |-> n3, f |-> s.f \ {off}, h |-> [h2 EXCEPT !.size = @ + 1], c |-> s.c]

\* unlink_node without the store to header_->tail_offset
unlink_node_tail_kept(s, off) ==
    LET prev == s.n[off].prev_offset
        next == s.n[off].next_offset
        n1 == IF prev >= 0 THEN [s.n EXCEPT ![prev].next_offset = next] ELSE s.n
        h1 == IF prev >= 0 THEN s.h ELSE [s.h EXCEPT !.head_offset = next]
        n2 == IF next >= 0 THEN [n1 EXCEPT ![next].prev_offset = prev] ELSE n1
    IN [n |-> [n2 EXCEPT ![off] = FreedNode], f |-> s.f \cup {off},
        h |-> [h1 EXCEPT !.size = @ - 1], c |-> AccessCache]

\* FastList::unlink_node, with the mark_deleted, free_node and
\* size.fetch_sub(1) of its callers
unlink_node(s, off) ==
    LET prev == s.n[off].prev_offset
        next == s.n[off].next_offset
        n1 == IF prev >= 0 THEN [s.n EXCEPT ![prev].next_offset = next] ELSE s.n
        h1 == IF prev >= 0 THEN s.h ELSE [s.h EXCEPT !.head_offset = next]
        n2 == IF next >= 0 THEN [n1 EXCEPT ![next].prev_offset = prev] ELSE n1
        h2 == IF next >= 0 THEN h1 ELSE [h1 EXCEPT !.tail_offset = prev]
    IN [n |-> [n2 EXCEPT ![off] = FreedNode], f |-> s.f \cup {off},
        h |-> [h2 EXCEPT !.size = @ - 1], c |-> AccessCache]

RECURSIVE LSkipExpired(_, _, _, _, _)
\* node_at_index, the loops "while (node && node->entry.is_expired())" of
\* the cached paths: forward along next_offset, else along prev_offset
LSkipExpired(n, off, forward, t, fuel) ==
    IF off < 0 \/ fuel = 0 THEN off
    ELSE IF ~is_expired(n[off], t) THEN off
    ELSE LSkipExpired(n, IF forward THEN n[off].next_offset ELSE n[off].prev_offset,
                      forward, t, fuel - 1)

RECURSIVE LFromHead(_, _, _, _, _, _)
\* node_at_index, "Traverse from head"
LFromHead(n, current, live_index, index, t, fuel) ==
    IF current < 0 \/ fuel = 0 THEN NULL_OFFSET
    ELSE IF is_alive(n[current], t) /\ live_index = index THEN current
    ELSE LFromHead(n, n[current].next_offset,
                   IF is_alive(n[current], t) THEN live_index + 1 ELSE live_index,
                   index, t, fuel - 1)

RECURSIVE LFromTail(_, _, _, _, _, _)
\* node_at_index, "Traverse from tail".  live_index is a size_t: below 0 it
\* wraps to values no index passed in equals, as the negative numbers here.
LFromTail(n, current, live_index, index, t, fuel) ==
    IF current < 0 \/ fuel = 0 THEN NULL_OFFSET
    ELSE IF is_alive(n[current], t) /\ live_index = index THEN current
    ELSE LFromTail(n, n[current].prev_offset,
                   IF is_alive(n[current], t) THEN live_index - 1 ELSE live_index,
                   index, t, fuel - 1)

\* node_at_index, the full traversal, from the head for an index in the
\* first half of header_->size and from the tail otherwise
LFullTraversal(s, index, t) ==
    LET list_size == s.h.size
    IN IF index < list_size \div 2
       THEN LFromHead(s.n, s.h.head_offset, 0, index, t, MaxListNodes + 1)
       ELSE LFromTail(s.n, s.h.tail_offset, list_size - 1, index, t, MaxListNodes + 1)

\* FastList::node_at_index: the offset found (NULL_OFFSET for nullptr) and
\* the access cache it leaves.  The clock readings of one traversal are
\* taken at one instant t.
node_at_index(s, index, t) ==
    LET usable == s.c.last_index # SIZE_MAX /\ s.c.last_offset >= 0
        fwd == IF usable /\ index = s.c.last_index + 1
               THEN LSkipExpired(s.n, s.n[s.c.last_offset].next_offset, TRUE, t,
                                 MaxListNodes + 1)
               ELSE NULL_OFFSET
        bwd == IF usable /\ index = s.c.last_index - 1 /\ s.c.last_index > 0
               THEN LSkipExpired(s.n, s.n[s.c.last_offset].prev_offset, FALSE, t,
                                 MaxListNodes + 1)
               ELSE NULL_OFFSET
        off == IF fwd >= 0 /\ is_alive(s.n[fwd], t) THEN fwd
               ELSE IF bwd >= 0 /\ is_alive(s.n[bwd], t) THEN bwd
               ELSE LFullTraversal(s, index, t)
    IN [off |-> off,
        s |-> IF off < 0 THEN s
              ELSE [s EXCEPT !.c = [last_index |-> index, last_offset |-> off]]]

LSetState(s) == /\ lnodes' = s.n
                /\ lfree' = s.f
                /\ lheader' = s.h
                /\ lcache' = s.c

\* the nodes linked, head first
LChainOf(n, h) == QWalk(n, h.head_offset, MaxListNodes + 1)

\* the place of a linked node in the chain, from 1
LPos(off) == CHOOSE i \in 1..Len(LChainOf(lnodes, lheader)) :
                LChainOf(lnodes, lheader)[i] = off

\* the reference entry of an element written at instant t
LGhost(id, data, ttl, t) ==
    [id |-> id, data |-> data, exp |-> IF ttl < 0 THEN 0 ELSE t + ttl * TicksPerSec]

\* allocate_node, copy_to_node and link_node between prev and next, as add,
\* addFirst and add(index) do; pos is the place in the chain.  allocate_node
\* throws when the heap is exhausted.
LLinkNew(s, data, ttl, prev, next, pos) ==
    IF s.f = {}
    THEN /\ LSetState(s)
         /\ UNCHANGED <<l_ref, l_next_id>>
    ELSE \E off \in allocate(s.f) :
         /\ LSetState(link_node(s, off, copy_to_node(ShmNode, data, ttl, now),
                                prev, next))
         /\ l_ref' = SubSeq(l_ref, 1, pos - 1)
                     \o <<LGhost(l_next_id, data, ttl, now)>>
                     \o SubSeq(l_ref, pos, Len(l_ref))
         /\ l_next_id' = l_next_id + 1

\* a call that returns false, or throws, with the nodes as they were
LFail(s) ==
    /\ LSetState(s)
    /\ UNCHANGED <<l_ref, l_next_id>>

\* FastList::add(data, size, ttl): link at the tail
LAddBody(data, ttl) ==
    IF Len(data) = 0 THEN LFail(LS)
    ELSE LLinkNew(LS, data, ttl, lheader.tail_offset, NULL_OFFSET,
                  Len(l_ref) + 1)

LAdd(data, ttl) ==
    /\ l_next_id <= MaxListAdds
    /\ LAddBody(data, ttl)
    /\ UNCHANGED now

\* FastList::addFirst: link at the head
LAddFirstBody(data, ttl) ==
    IF Len(data) = 0 THEN LFail(LS)
    ELSE LLinkNew(LS, data, ttl, NULL_OFFSET, lheader.head_offset, 1)

LAddFirst(data, ttl) ==
    /\ l_next_id <= MaxListAdds
    /\ LAddFirstBody(data, ttl)
    /\ UNCHANGED now

\* FastList::add(index, data, size, ttl).  For index = header size and for
\* index = 0 it releases the lock and calls add and addFirst.
LAddAt(index, data, ttl) ==
    /\ l_next_id <= MaxListAdds
    /\ LET current_size == lheader.size
           r == node_at_index(LS, index, now)
       IN IF Len(data) = 0 \/ index > current_size THEN LFail(LS)
          ELSE IF index = current_size THEN LAddBody(data, ttl)
          ELSE IF index = 0 THEN LAddFirstBody(data, ttl)
          ELSE IF r.off < 0 THEN LFail(r.s)
          ELSE LLinkNew(r.s, data, ttl,
                        lnodes[r.off].prev_offset, r.off, LPos(r.off))
    /\ UNCHANGED now

\* what add(index, data, size, ttl) returns when allocate_node does not throw
FastList_addAt_ret(index, data) ==
    IF Len(data) = 0 \/ index > lheader.size THEN FALSE
    ELSE IF index = lheader.size \/ index = 0 THEN TRUE
    ELSE node_at_index(LS, index, now).off >= 0

\* removeFirst, removeLast and remove(index) from the node they have found:
\* out_data is written when is_alive (reading t2) holds, by copy_from_node
\* (reading t3); left alone it is the empty vector of the caller.
LRemoved(node, t2, t3) ==
    Ret(TRUE, IF is_alive(node, t2) THEN copy_from_node(node, t3) ELSE <<>>)

LRemoveNode(s, off, pos) ==
    \E t2 \in Later(now) : \E t3 \in Later(t2) :
       /\ LSetState(unlink_node(s, off))
       /\ l_ref' = RemoveAt(l_ref, pos)
       /\ now' = IF is_alive(s.n[off], t2) THEN t3 ELSE t2
       /\ UNCHANGED l_next_id

\* FastList::removeFirst: the node at the head, alive or not
LRemoveFirst ==
    IF lheader.head_offset < 0
    THEN LFail(LS) /\ UNCHANGED now
    ELSE LRemoveNode(LS, lheader.head_offset, 1)

\* what removeFirst returns with the clock readings t2 and t3
FastList_removeFirst_ret(t2, t3) ==
    IF lheader.head_offset < 0 THEN Ret(FALSE, <<>>)
    ELSE LRemoved(lnodes[lheader.head_offset], t2, t3)

\* FastList::removeLast: the node at the tail, alive or not
LRemoveLast ==
    IF lheader.tail_offset < 0
    THEN LFail(LS) /\ UNCHANGED now
    ELSE LRemoveNode(LS, lheader.tail_offset, Len(l_ref))

\* what removeLast returns with the clock readings t2 and t3
FastList_removeLast_ret(t2, t3) ==
    IF lheader.tail_offset < 0 THEN Ret(FALSE, <<>>)
    ELSE LRemoved(lnodes[lheader.tail_offset], t2, t3)

\* FastList::remove(index)
LRemoveAt(index) ==
    LET r == node_at_index(LS, index, now)
    IN IF r.off < 0
       THEN LFail(r.s) /\ UNCHANGED now
       ELSE LRemoveNode(r.s, r.off, LPos(r.off))

\* FastList::get(index): node_at_index, then is_alive (reading t2), then
\* copy_from_node (reading t3)
LGet(index) ==
    LET r == node_at_index(LS, index, now)
    IN IF r.off < 0
       THEN LFail(r.s) /\ UNCHANGED now
       ELSE \E t2 \in Later(now) : \E t3 \in Later(t2) :
            /\ LSetState(r.s)
            /\ now' = IF is_alive(lnodes[r.off], t2) THEN t3 ELSE t2
            /\ UNCHANGED <<l_ref, l_next_id>>

\* what get(index) returns with the clock readings t2 and t3
FastList_get_ret(index, t2, t3) ==
    LET r == node_at_index(LS, index, now)
    IN IF r.off < 0 THEN Ret(FALSE, <<>>)
       ELSE IF ~is_alive(lnodes[r.off], t2) THEN Ret(FALSE, <<>>)
       ELSE Ret(TRUE, copy_from_node(lnodes[r.off], t3))

\* FastList::set(index, data, size, ttl): in place for data of the size
\* stored, else a new node takes the place of the old one in the chain.
\* set_ttl reads the clock at t2.
LSet(index, data, ttl) ==
    LET r == node_at_index(LS, index, now)
        old == lnodes[r.off]
    IN IF Len(data) = 0 THEN LFail(LS) /\ UNCHANGED now
       ELSE IF r.off < 0 THEN LFail(r.s) /\ UNCHANGED now
       ELSE IF old.data_size # Len(data) /\ lfree = {}
       THEN LFail(r.s) /\ UNCHANGED now
       ELSE \E t2 \in Later(now) :
            /\ IF old.data_size = Len(data)
               THEN LSetState([r.s EXCEPT
                       !.n[r.off] = mark_valid(set_ttl(
                                       [old EXCEPT !.data = data,
                                                   !.hash_code = compute_hash(data)],
                                       ttl, t2)),
                       !.c = AccessCache])
               ELSE \E new \in allocate(lfree) :
                    LET prev == old.prev_offset
                        next == old.next_offset
                        node == [copy_to_node(ShmNode, data, ttl, t2)
                                   EXCEPT !.prev_offset = prev, !.next_offset = next]
                        n1 == [lnodes EXCEPT ![new] = node]
                        n2 == IF prev >= 0 THEN [n1 EXCEPT ![prev].next_offset = new]
                              ELSE n1
                        n3 == IF next >= 0 THEN [n2 EXCEPT ![next].prev_offset = new]
                              ELSE n2
                        h1 == IF prev >= 0 THEN lheader
                              ELSE [lheader EXCEPT !.head_offset = new]
                        h2 == IF next >= 0 THEN h1 ELSE [h1 EXCEPT !.tail_offset = new]
                    IN LSetState([n |-> [n3 EXCEPT ![r.off] = FreedNode],
                                  f |-> (lfree \ {new}) \cup {r.off},
                                  h |-> h2, c |-> AccessCache])
            /\ l_ref' = [l_ref EXCEPT ![LPos(r.off)] =
                            LGhost(l_ref[LPos(r.off)].id, data, ttl, t2)]
            /\ now' = t2
            /\ UNCHANGED l_next_id

\* FastList::setTTL(index, ttl): node_at_index, then is_alive (reading t2),
\* then set_ttl (reading t3)
LSetTTL(index, ttl) ==
    LET r == node_at_index(LS, index, now)
    IN IF r.off < 0
       THEN LFail(r.s) /\ UNCHANGED now
       ELSE \E t2 \in Later(now) : \E t3 \in Later(t2) :
            IF is_alive(lnodes[r.off], t2)
            THEN /\ LSetState([r.s EXCEPT !.n[r.off] = set_ttl(lnodes[r.off], ttl, t3)])
                 /\ l_ref' = [l_ref EXCEPT ![LPos(r.off)] =
                                 LGhost(l_ref[LPos(r.off)].id,
                                        l_ref[LPos(r.off)].data, ttl, t3)]
                 /\ now' = t3
                 /\ UNCHANGED l_next_id
            ELSE /\ LFail(r.s)
                 /\ now' = t2

RECURSIVE LSweep(_, _, _)
LSweep(s, current, t) ==
    IF current < 0 THEN s
    ELSE LET next == s.n[current].next_offset
         IN IF is_expired(s.n[current], t)
            THEN LSweep(unlink_node(s, current), next, t)
            ELSE LSweep(s, next, t)

\* the count FastList::removeExpired returns: removed++ beside each
\* header_->size.fetch_sub(1)
FastList_removeExpired_ret == lheader.size - LSweep(LS, lheader.head_offset, now).h.size

\* a removeExpired that looks at the head only
LRemoveExpired_head_only ==
    /\ LSetState(IF lheader.head_offset >= 0
                    /\ is_expired(lnodes[lheader.head_offset], now)
                 THEN unlink_node(LS, lheader.head_offset) ELSE LS)
    /\ l_ref' = SelectSeq(l_ref, QGhostAlive)
    /\ UNCHANGED <<now, l_next_id>>

\* FastList::removeExpired
LRemoveExpired ==
    /\ LSetState(LSweep(LS, lheader.head_offset, now))
    /\ l_ref' = SelectSeq(l_ref, QGhostAlive)
    /\ UNCHANGED <<now, l_next_id>>

\* FastList::clear: every node of the chain is marked deleted and freed,
\* then the header and the cache are reset
LClear ==
    /\ LSetState([n |-> [o \in LOffsets |->
                           IF \E i \in 1..Len(LChainOf(lnodes, lheader)) :
                                 LChainOf(lnodes, lheader)[i] = o
                           THEN FreedNode ELSE lnodes[o]],
                  f |-> lfree \cup {LChainOf(lnodes, lheader)[i] :
                                      i \in 1..Len(LChainOf(lnodes, lheader))},
                  h |-> ListHeader, c |-> AccessCache])
    /\ l_ref' = <<>>
    /\ UNCHANGED <<now, l_next_id>>

RECURSIVE LAliveFrom(_, _, _)
\* the walk of forEach, indexOf and size: the alive nodes, head first
LAliveFrom(n, current, t) ==
    IF current < 0 THEN <<>>
    ELSE (IF is_alive(n[current], t) THEN <<current>> ELSE <<>>)
         \o LAliveFrom(n, n[current].next_offset, t)

\* FastList::forEach: the payloads the callback is given, in order
FastList_forEach ==
    LET a == LAliveFrom(lnodes, lheader.head_offset, now)
    IN [i \in 1..Len(a) |-> lnodes[a[i]].data]

\* FastList::size
FastList_size == Len(LAliveFrom(lnodes, lheader.head_offset, now))

\* FastList::indexOf (contains is indexOf >= 0)
FastList_indexOf(data) ==
    LET a == LAliveFrom(lnodes, lheader.head_offset, now)
        hit == {i \in 1..Len(a) : /\ lnodes[a[i]].hash_code = compute_hash(data)
                                  /\ lnodes[a[i]].data_size = Len(data)
                                  /\ lnodes[a[i]].data = data}
    IN IF Len(data) = 0 \/ hit = {} THEN -1
       ELSE (CHOOSE i \in hit : \A j \in hit : i <= j) - 1

\* a constructor that builds a new ListHeader in a file that has one
LReopen_header_constructed(create_new) ==
    /\ lheader' = ListHeader
    /\ lcache' = AccessCache
    /\ IF create_new
       THEN /\ lnodes' = [o \in LOffsets |-> ShmNode]
            /\ lfree' = LOffsets
            /\ l_ref' = <<>>
       ELSE UNCHANGED <<lnodes, lfree, l_ref>>
    /\ UNCHANGED <<now, l_next_id>>

\* ~FastList (flush) and FastList::FastList on the same file.  With
\* create_new the MMapFileManager removes the file and creates it, and
\* find_or_construct builds the header; without it the file is opened and
\* header_ is the "list_header" found in it.  access_cache_ is a member of
\* the new object.
LReopen(create_new) ==
    /\ IF create_new
       THEN /\ lnodes' = [o \in LOffsets |-> ShmNode]
            /\ lfree' = LOffsets
            /\ lheader' = ListHeader
            /\ l_ref' = <<>>
       ELSE UNCHANGED <<lnodes, lfree, lheader, l_ref>>
    /\ lcache' = AccessCache
    /\ UNCHANGED <<now, l_next_id>>

LInit == /\ lnodes = [o \in LOffsets |-> ShmNode]
         /\ lfree = LOffsets
         /\ lheader = ListHeader
         /\ lcache = AccessCache
         /\ l_ref = <<>>
         /\ l_next_id = 1
         /\ l_call = 0

(***************************************************************************)
(* The mutexes of the containers and the order in which the operations     *)
(* take them.  Every locking operation declares an IpcScopedLock           *)
(* (bip::scoped_lock), whose destructor unlocks on every way out of its    *)
(* scope, a return and an exception alike.  The mutexes are not recursive: *)
(* a thread that locks a mutex it holds waits for itself.  klock holds the *)
(* owner of each mutex and, for each thread, the operation it is in, where *)
(* it stands, the mutex it waits for or holds, and its loop variable i.    *)
(* What an operation does to the records under its lock is left out here.  *)
(***************************************************************************)
VARIABLE klock

KThreads == {1, 2}

\* header_->global_mutex of the list and of the queue, bucket->mutex of each
\* bucket of the set and of the map
KMutexes == {<<"list", 0>>, <<"queue", 0>>}
               \cup {<<c, b>> : c \in {"set", "map"}, b \in MBuckets}

KNoMutex == <<"none", 0>>

\* operations that take one bucket mutex after the other, i being the bucket
KWholeTable == {"set_retainIf", "map_removeExpired"}

\* operations that take the mutex of the one bucket of their key
KKeyed == {"set_add", "map_put"}

KOps == {"list_add_index", "list_add", "list_addFirst", "queue_drainTo"}
           \cup KWholeTable \cup KKeyed

\* the container whose mutex an operation takes
KContainer(op) == IF op \in {"list_add_index", "list_add", "list_addFirst"} THEN "list"
                  ELSE IF op = "queue_drainTo" THEN "queue"
                  ELSE IF op \in {"set_retainIf", "set_add"} THEN "set"
                  ELSE "map"

KInit == [owner |-> [m \in KMutexes |-> 0],
          pc |-> [t \in KThreads |-> "idle"],
          op |-> [t \in KThreads |-> "none"],
          m |-> [t \in KThreads |-> KNoMutex],
          i |-> [t \in KThreads |-> 0]]

\* the mutexes thread t owns
KHeld(t) == {m \in KMutexes : klock.owner[m] = t}

\* thread t is through with its operation
KIdle(k, t) == [k EXCEPT !.pc[t] = "idle", !.op[t] = "none",
                         !.m[t] = KNoMutex, !.i[t] = 0]

\* thread t goes on to take mutex m as operation op
KWant(k, t, op, m, i) == [k EXCEPT !.pc[t] = "wait", !.op[t] = op,
                                   !.m[t] = m, !.i[t] = i]

\* the end of the scope of thread t's IpcScopedLock, or lock.unlock()
KUnlock(k, t) == [k EXCEPT !.owner[k.m[t]] = 0]

\* an operation is called: it comes to its IpcScopedLock, which for a keyed
\* operation is on the bucket b of its key and for a whole-table operation
\* on bucket 0, the first pass of for (i = 0; i < bucket_count; i++)
KCall(t, op, b) ==
    /\ klock.pc[t] = "idle"
    /\ klock' = KWant(klock, t, op,
                      <<KContainer(op), IF op \in KKeyed THEN b ELSE 0>>, 0)

\* IpcScopedLock lock(mutex): the constructor returns once the mutex is free
KAcquire(t) ==
    /\ klock.pc[t] = "wait"
    /\ klock.owner[klock.m[t]] = 0
    /\ klock' = [klock EXCEPT !.owner[klock.m[t]] = t, !.pc[t] = "held"]

\* FastList::add(index, ...) that calls add or addFirst with the lock held
KListAddAt_lock_kept(t) ==
    /\ klock.pc[t] = "held" /\ klock.op[t] = "list_add_index"
    /\ \/ klock' = KIdle(KUnlock(klock, t), t)
       \/ \E op \in {"list_add", "list_addFirst"} :
             klock' = KWant(klock, t, op, <<"list", 0>>, 0)

\* FastList::add(index, ...) under its lock: return false (index beyond the
\* size, no node at the index), an exception of allocate_node and the
\* insertion in the middle leave the scope; index == size and index == 0
\* call lock.unlock() and then add or addFirst, which lock again
KListAddAt(t) ==
    /\ klock.pc[t] = "held" /\ klock.op[t] = "list_add_index"
    /\ \/ klock' = KIdle(KUnlock(klock, t), t)
       \/ \E op \in {"list_add", "list_addFirst"} :
             klock' = KWant(KUnlock(klock, t), t, op, <<"list", 0>>, 0)

\* FastQueue::drainTo under its lock: callback(std::move(data)), which does
\* not call the queue, and drained++
KDrainCallback(t) ==
    /\ klock.pc[t] = "held" /\ klock.op[t] = "queue_drainTo"
    /\ klock.i[t] < MaxDrain
    /\ klock' = [klock EXCEPT !.i[t] = @ + 1]

\* the end of an operation that takes one mutex: its return, or an
\* exception thrown under the lock
KReturn(t) ==
    /\ klock.pc[t] = "held"
    /\ klock.op[t] \in {"list_add", "list_addFirst", "queue_drainTo"} \cup KKeyed
    /\ klock' = KIdle(KUnlock(klock, t), t)

\* FastSet::retainIf and FastMap::removeExpired: the end of one pass of the
\* loop over the buckets unlocks bucket i; the next pass locks bucket i + 1
KBucketDone(t) ==
    /\ klock.pc[t] = "held" /\ klock.op[t] \in KWholeTable
    /\ klock' = IF klock.i[t] + 1 < BucketCount
                THEN KWant(KUnlock(klock, t), t, klock.op[t],
                           <<KContainer(klock.op[t]), klock.i[t] + 1>>, klock.i[t] + 1)
                ELSE KIdle(KUnlock(klock, t), t)

\* what a thread does once it has been called
KStep(t) ==
    \/ KAcquire(t)
    \/ KListAddAt(t)
    \/ KDrainCallback(t)
    \/ KReturn(t)
    \/ KBucketDone(t)

(***************************************************************************)
(* The specifications: one per container, over one clock.                  *)
(***************************************************************************)
vars == <<now, qvars, qmap, qwait, svars, mfile, mvars, hvars, lvars, klock>>

\* what the operations of one container leave alone
notQueueFile == <<svars, mfile, mvars, hvars, lvars, klock>>
notQueue == <<qmap, qwait, notQueueFile>>
notStack == <<qvars, qmap, qwait, mfile, mvars, hvars, lvars, klock>>
notMapFile == <<qvars, qmap, qwait, svars, hvars, lvars, klock>>
notMap == <<mfile, notMapFile>>
notSet == <<qvars, qmap, qwait, svars, mfile, mvars, lvars, klock>>
notList == <<qvars, qmap, qwait, svars, mfile, mvars, hvars, klock>>

Init == /\ now = 1
        /\ QInit
        /\ qmap = MMapFile(MaxNodes)
        /\ qwait = QWaitInit
        /\ klock = KInit
        /\ mfile = MMapFile(MaxMapNodes)
        /\ SInit(SThreads)
        /\ MInit(MThreads)
        /\ HInit
        /\ LInit

\* the clock advances
Tick == /\ now < MaxTime
        /\ now' = now + 1

QTick == Tick /\ UNCHANGED <<qvars, notQueue>>

NextQueue ==
    \/ (\E in \in Inputs : QOffer(in.data, in.ttl)) /\ UNCHANGED notQueue
    \/ (\E in \in Inputs : QOfferFirst(in.data, in.ttl)) /\ UNCHANGED notQueue
    \/ QPoll /\ UNCHANGED notQueue
    \/ QPeek /\ UNCHANGED notQueue
    \/ QPollLast /\ UNCHANGED notQueue
    \/ QRemoveExpired /\ UNCHANGED notQueue
    \/ (\E data \in Payloads \cup {<<>>} : QRemoveElement(data)) /\ UNCHANGED notQueue
    \/ QClear /\ UNCHANGED notQueue
    \/ QTick

SpecQueue == Init /\ [][NextQueue]_vars

\* producers at both ends and the consumers of the front
NextDrain ==
    \/ (\E in \in Inputs : QOffer(in.data, in.ttl)) /\ UNCHANGED notQueue
    \/ (\E in \in Inputs : QOfferFirst(in.data, in.ttl)) /\ UNCHANGED notQueue
    \/ QPoll /\ UNCHANGED notQueue
    \/ QPeek /\ UNCHANGED notQueue
    \/ (\E max_elements \in 0..MaxDrain : QDrainTo(max_elements)) /\ UNCHANGED notQueue
    \/ QTick

SpecDrain == Init /\ [][NextDrain]_vars

\* producers at both ends and the consumers of the back
NextBack ==
    \/ (\E in \in Inputs : QOffer(in.data, in.ttl)) /\ UNCHANGED notQueue
    \/ (\E in \in Inputs : QOfferFirst(in.data, in.ttl)) /\ UNCHANGED notQueue
    \/ QPollLast /\ UNCHANGED notQueue
    \/ QPeekLast /\ UNCHANGED notQueue
    \/ QTick

SpecBack == Init /\ [][NextBack]_vars

STick == Tick /\ UNCHANGED <<svars, notStack>>

NextStack ==
    \/ \E t \in SThreads : \E in \in SInputs : SPushBegin(t, in.data, in.ttl) /\ UNCHANGED notStack
    \/ \E t \in SThreads : SPushLoad(t) /\ UNCHANGED notStack
    \/ \E t \in SThreads : SPushCas(t) /\ UNCHANGED notStack
    \/ \E t \in SThreads : SPushPost(t) /\ UNCHANGED notStack
    \/ \E t \in SThreads : SPopLoad(t) /\ UNCHANGED notStack
    \/ \E t \in SThreads : SPopCheck(t) /\ UNCHANGED notStack
    \/ \E t \in SThreads : SPopCopy(t) /\ UNCHANGED notStack
    \/ \E t \in SThreads : SPopCas(t) /\ UNCHANGED notStack
    \/ \E t \in SThreads : SPopPost(t) /\ UNCHANGED notStack
    \/ STick

SpecStack == Init /\ [][NextStack]_vars

\* the element lists pushAll is called with
SPushAllInputs ==
    {<<[data |-> <<1>>, ttl |-> TTL_INFINITE], [data |-> <<2>>, ttl |-> TTL_INFINITE]>>,
     <<[data |-> <<2>>, ttl |-> 1], [data |-> <<1>>, ttl |-> TTL_INFINITE]>>}

\* the threads of the stack with pushAll beside their pushes and pops
NextPushAll ==
    \/ NextStack
    \/ \E t \in SThreads : \E elements \in SPushAllInputs :
          SPushAllBegin(t, elements) /\ UNCHANGED notStack
    \/ \E t \in SThreads : SPushAllLoad(t) /\ UNCHANGED notStack
    \/ \E t \in SThreads : SPushAllCas(t) /\ UNCHANGED notStack
    \/ \E t \in SThreads : SPushAllPost(t) /\ UNCHANGED notStack

SpecPushAll == Init /\ [][NextPushAll]_vars

\* the queue on a file created with room for InitialSize blocks
InitGrow == /\ now = 1
            /\ qnodes = [o \in Offsets |-> ShmNode]
            /\ qfree = 0..(InitialSize - 1)
            /\ qheader = DequeHeader
            /\ q_ref = <<>>
            /\ q_gid = [o \in Offsets |-> 0]
            /\ q_next_id = 1
            /\ q_polled = <<>>
            /\ qmap = MMapFile(InitialSize)
            /\ qwait = QWaitInit
            /\ klock = KInit
            /\ mfile = MMapFile(MaxMapNodes)
            /\ SInit(SThreads)
            /\ MInit(MThreads)
            /\ HInit
            /\ LInit

NextGrow ==
    \/ (\E in \in Inputs : FastQueue_offer(in.data, in.ttl))
          /\ UNCHANGED <<qwait, notQueueFile>>
    \/ QValid /\ QPoll /\ UNCHANGED notQueue
    \/ QValid /\ QPollLast /\ UNCHANGED notQueue
    \/ QValid /\ QTick

SpecGrow == InitGrow /\ [][NextGrow]_vars

\* producers beside a thread in take and a thread in poll with a timeout
NextWait ==
    \/ QTakeCall /\ UNCHANGED <<qmap, notQueueFile>>
    \/ (\E timeout_ms \in Timeouts : QPollCall(timeout_ms)) /\ UNCHANGED <<qmap, notQueueFile>>
    \/ (\E c \in QConsumers : QWaitStep(c)) /\ UNCHANGED <<qmap, notQueueFile>>
    \/ (\E in \in Inputs : QWaitOffer(in.data, in.ttl)) /\ UNCHANGED <<qmap, notQueueFile>>
    \/ QTick

SpecWait == Init /\ [][NextWait]_vars

\* the scheduler lets a thread that can go on go on; a thread that waits
\* for global_mutex gets it after finitely many releases
WaitFairness ==
    /\ \A c \in QConsumers : WF_vars(QWaitStep(c) /\ UNCHANGED <<qmap, notQueueFile>>)
    /\ \A c \in QConsumers : SF_vars(QWaitLock(c) /\ UNCHANGED <<qmap, notQueueFile>>)

SpecWaitFair == SpecWait /\ WaitFairness

\* the threads of the stack with clear beside their pushes and pops
NextStackClear ==
    \/ sheader.aba_tag < MaxAbaTag /\ NextStack
    \/ \E t \in SThreads : SClearBegin(t) /\ UNCHANGED notStack
    \/ \E t \in SThreads : SClearFree(t) /\ UNCHANGED notStack
    \/ \E t \in SThreads : SClearFinish(t) /\ UNCHANGED notStack

SpecStackClear == Init /\ [][NextStackClear]_vars

\* thread 1 pushes and pops, thread 2 clears
NextPushClear ==
    \/ sheader.aba_tag < MaxAbaTag /\ (\E in \in SInputs : SPushBegin(1, in.data, in.ttl)) /\ UNCHANGED notStack
    \/ sheader.aba_tag < MaxAbaTag /\ SPushLoad(1) /\ UNCHANGED notStack
    \/ sheader.aba_tag < MaxAbaTag /\ SPushCas(1) /\ UNCHANGED notStack
    \/ sheader.aba_tag < MaxAbaTag /\ SPushPost(1) /\ UNCHANGED notStack
    \/ sheader.aba_tag < MaxAbaTag /\ SPopLoad(1) /\ UNCHANGED notStack
    \/ sheader.aba_tag < MaxAbaTag /\ SPopCheck(1) /\ UNCHANGED notStack
    \/ sheader.aba_tag < MaxAbaTag /\ SPopCopy(1) /\ UNCHANGED notStack
    \/ sheader.aba_tag < MaxAbaTag /\ SPopCas(1) /\ UNCHANGED notStack
    \/ sheader.aba_tag < MaxAbaTag /\ SPopPost(1) /\ UNCHANGED notStack
    \/ SClearBegin(2) /\ UNCHANGED notStack
    \/ SClearFree(2) /\ UNCHANGED notStack
    \/ SClearFinish(2) /\ UNCHANGED notStack
    \/ STick

SpecPushClear == Init /\ [][NextPushClear]_vars

\* what the steps of the lock model leave alone
notLocks == <<now, qvars, qmap, qwait, svars, mfile, mvars, hvars, lvars>>

\* two threads that call the locking operations of the four containers
NextLocks ==
    \/ (\E t \in KThreads : \E op \in KOps : \E b \in MBuckets : KCall(t, op, b))
          /\ UNCHANGED notLocks
    \/ (\E t \in KThreads : KAcquire(t)) /\ UNCHANGED notLocks
    \/ (\E t \in KThreads : KListAddAt(t)) /\ UNCHANGED notLocks
    \/ (\E t \in KThreads : KDrainCallback(t)) /\ UNCHANGED notLocks
    \/ (\E t \in KThreads : KReturn(t)) /\ UNCHANGED notLocks
    \/ (\E t \in KThreads : KBucketDone(t)) /\ UNCHANGED notLocks

SpecLocks == Init /\ [][NextLocks]_vars

\* the scheduler lets a thread that can go on go on; a thread that waits
\* for a mutex gets it after finitely many releases
LockFairness ==
    /\ \A t \in KThreads : WF_vars(KStep(t) /\ UNCHANGED notLocks)
    /\ \A t \in KThreads : SF_vars(KAcquire(t) /\ UNCHANGED notLocks)

SpecLocksFair == SpecLocks /\ LockFairness

\* one thread alone on the stack and on the map
InitSeq == /\ now = 1
           /\ QInit
           /\ qmap = MMapFile(MaxNodes)
           /\ qwait = QWaitInit
           /\ klock = KInit
           /\ mfile = MMapFile(MaxMapNodes)
           /\ SInit({1})
           /\ MInit({1})
           /\ HInit
           /\ LInit

SpecStackSeq == InitSeq /\ [][NextStack]_vars

MTick == /\ Tick
         /\ UNCHANGED <<mnodes, mfree, mbuckets, msize, mmutex, mthreads, mpc,
                        mloc, m_ref, m_ops>>
         /\ MObserve
         /\ UNCHANGED notMap

\* the steps of the writers and of get, whatever the calls
MSteps ==
    \/ \E t \in MThreads : MPut(t) /\ MObserve /\ UNCHANGED notMap
    \/ \E t \in MThreads : MPutIfAbsent(t) /\ MObserve /\ UNCHANGED notMap
    \/ \E t \in MThreads : MReplace(t) /\ MObserve /\ UNCHANGED notMap
    \/ \E t \in MThreads : MReplaceIf(t) /\ MObserve /\ UNCHANGED notMap
    \/ \E t \in MThreads : MCopyByte(t) /\ MObserve /\ UNCHANGED notMap
    \/ \E t \in MThreads : MFinish(t) /\ MObserve /\ UNCHANGED notMap
    \/ \E t \in MThreads : MRemove(t) /\ MObserve /\ UNCHANGED notMap
    \/ \E t \in MThreads : MSetTTL(t) /\ MObserve /\ UNCHANGED notMap
    \/ \E t \in MThreads : MGetCheck(t) /\ MObserve /\ UNCHANGED notMap
    \/ \E t \in MThreads : MGetCopy(t) /\ MObserve /\ UNCHANGED notMap
    \/ MTick

NextMapSeq ==
    \/ \E t \in MThreads : \E in \in MCallsSeq : MLockFind(t, in) /\ MObserve /\ UNCHANGED notMap
    \/ \E t \in MThreads : \E key \in MKeys \cup {<<>>} : MGetBegin(t, key) /\ MObserve /\ UNCHANGED notMap
    \/ MSteps

SpecMapSeq == InitSeq /\ [][NextMapSeq]_vars

\* the map on a file created with room for InitialSize blocks
InitAlloc == /\ now = 1
             /\ QInit
             /\ qmap = MMapFile(MaxNodes)
             /\ qwait = QWaitInit
             /\ klock = KInit
             /\ SInit({1})
             /\ mfile = MMapFile(InitialSize)
             /\ mnodes = [o \in MOffsets |-> ShmKeyValue]
             /\ mfree = 0..(InitialSize - 1)
             /\ mbuckets = [b \in MBuckets |-> ShmBucket]
             /\ msize = 0
             /\ mmutex = [b \in MBuckets |-> 0]
             /\ mthreads = {1}
             /\ mpc = [t \in MThreads |-> "idle"]
             /\ mloc = [t \in MThreads |-> MLocals]
             /\ m_ref = [k \in MKeys |-> MRefAbsent]
             /\ m_ops = 0
             /\ m_legal = [t \in MThreads |-> {}]
             /\ HInit
             /\ LInit

\* one thread that calls putIfAbsent on a file that grows as far as
\* MaxMapNodes blocks
NextAlloc ==
    \/ \E t \in MThreads : \E in \in MCallsAlloc :
          FastMap_putIfAbsent(t, in.key, in.value, in.ttl) /\ MObserve /\ UNCHANGED notMapFile
    \/ MValid /\ MTick

SpecAlloc == InitAlloc /\ [][NextAlloc]_vars

NextMap ==
    \/ \E t \in MThreads : \E in \in MCallsConc : MLockFind(t, in) /\ MObserve /\ UNCHANGED notMap
    \/ \E t \in MThreads : MGetBegin(t, <<1>>) /\ MObserve /\ UNCHANGED notMap
    \/ MSteps

SpecMap == Init /\ [][NextMap]_vars

HTick == Tick /\ UNCHANGED <<hvars, notSet>>

NextSet ==
    \/ (\E in \in HInputs : HAdd(in.data, in.ttl)) /\ UNCHANGED <<hclear, notSet>>
    \/ (\E data \in HElems \cup {<<>>} : HRemove(data)) /\ UNCHANGED <<hclear, notSet>>
    \/ (\E in \in HInputs : HSetTTL(in.data, in.ttl)) /\ UNCHANGED <<hclear, notSet>>
    \/ HTick

SpecSet == Init /\ [][NextSet]_vars

\* the set with a process that calls clear beside the callers of add,
\* remove and setTTL
NextSetClear ==
    \/ NextSet
    \/ HClearBegin /\ UNCHANGED notSet
    \/ HClearBucket /\ UNCHANGED notSet
    \/ HClearFinish /\ UNCHANGED notSet

SpecSetClear == Init /\ [][NextSetClear]_vars

LTick == Tick /\ UNCHANGED <<lvars, notList>>

NextList ==
    \/ (\E in \in Inputs : LAdd(in.data, in.ttl)) /\ UNCHANGED <<l_call, notList>>
    \/ (\E in \in Inputs : LAddFirst(in.data, in.ttl)) /\ UNCHANGED <<l_call, notList>>
    \/ LRemoveFirst /\ UNCHANGED <<l_call, notList>>
    \/ LRemoveLast /\ UNCHANGED <<l_call, notList>>
    \/ LRemoveExpired /\ UNCHANGED <<l_call, notList>>
    \/ LTick

SpecList == Init /\ [][NextList]_vars

\* the indexes and the elements of the positional calls
LIndexes == 0..MaxListNodes
LSetInputs == {[data |-> <<1>>, ttl |-> TTL_INFINITE], [data |-> <<3, 3>>, ttl |-> 1],
               [data |-> <<>>, ttl |-> TTL_INFINITE]}
LAddAtInputs == {[data |-> <<1>>, ttl |-> TTL_INFINITE], [data |-> <<2>>, ttl |-> 1]}

\* the list with its positional operations and clear, of which l_call
\* counts the calls made
LCounted == /\ l_call < MaxListCalls
            /\ l_call' = l_call + 1
            /\ UNCHANGED notList

NextListIndexed ==
    \/ l_call = 0 /\ NextList
    \/ LTick
    \/ (\E i \in LIndexes : \E in \in LAddAtInputs : LAddAt(i, in.data, in.ttl)) /\ LCounted
    \/ (\E i \in LIndexes : LGet(i)) /\ LCounted
    \/ (\E i \in LIndexes : LRemoveAt(i)) /\ LCounted
    \/ (\E i \in LIndexes : \E in \in LSetInputs : LSet(i, in.data, in.ttl)) /\ LCounted
    \/ (\E i \in LIndexes : \E ttl \in {TTL_INFINITE, 1} : LSetTTL(i, ttl)) /\ LCounted
    \/ LClear /\ LCounted

SpecListIndexed == Init /\ [][NextListIndexed]_vars

\* a process that fills the list, reads it by index and opens it again
NextReopen ==
    \/ NextList
    \/ (\E i \in LIndexes : LGet(i)) /\ LCounted
    \/ (\E create_new \in BOOLEAN : LReopen(create_new)) /\ LCounted

SpecReopen == Init /\ [][NextReopen]_vars

\* no call has been made on the container yet
QFresh == q_next_id = 1
SFresh == s_next_id = 1 /\ \A t \in SThreads : spc[t] = "idle"
MFresh == m_ops = 0
HFresh == h_ops = 0
LFresh == l_next_id = 1 /\ l_call = 0

\* one process that works on the set, on the map or on the list and sets
\* the TTL of their elements
NextTTL ==
    \/ MFresh /\ LFresh /\ NextSet
    \/ HFresh /\ LFresh /\ NextMapSeq
    \/ HFresh /\ MFresh
          /\ (\E in \in Inputs : LAdd(in.data, in.ttl)) /\ UNCHANGED <<l_call, notList>>
    \/ HFresh /\ MFresh /\ LTick
    \/ HFresh /\ MFresh
          /\ (\E i \in LIndexes : \E ttl \in {TTL_INFINITE, 0, 1} : LSetTTL(i, ttl))
          /\ LCounted

SpecTTL == InitSeq /\ [][NextTTL]_vars

\* one process that works on the list or on the queue
NextListQueue ==
    \/ QFresh /\ NextListIndexed
    \/ LFresh /\ NextQueue

SpecListQueue == Init /\ [][NextListQueue]_vars

\* concurrent processes that work on the set or on the map
NextSetMap ==
    \/ MFresh /\ NextSet
    \/ HFresh /\ NextMap

SpecSetMap == Init /\ [][NextSetMap]_vars

\* one process that works on one of the containers and also clears it; a
\* clear of the set runs from its first step to its last with no other call
NextClear ==
    \/ SFresh /\ MFresh /\ HFresh /\ LFresh /\ NextQueue
    \/ QFresh /\ MFresh /\ HFresh /\ LFresh /\ NextStackClear
    \/ QFresh /\ SFresh /\ HFresh /\ LFresh /\ NextMapSeq
    \/ QFresh /\ SFresh /\ HFresh /\ LFresh
          /\ \E t \in MThreads : MClear(t) /\ MObserve /\ UNCHANGED notMap
    \/ QFresh /\ SFresh /\ MFresh /\ LFresh /\ hclear = NoClear /\ NextSet
    \/ QFresh /\ SFresh /\ MFresh /\ LFresh /\ HClearBegin /\ UNCHANGED notSet
    \/ QFresh /\ SFresh /\ MFresh /\ LFresh /\ HClearBucket /\ UNCHANGED notSet
    \/ QFresh /\ SFresh /\ MFresh /\ LFresh /\ HClearFinish /\ UNCHANGED notSet
    \/ QFresh /\ SFresh /\ MFresh /\ HFresh /\ NextList
    \/ QFresh /\ SFresh /\ MFresh /\ HFresh /\ LClear /\ UNCHANGED <<l_call, notList>>

SpecClear == InitSeq /\ [][NextClear]_vars

\* one process that works on one of the containers
NextAny ==
    \/ SFresh /\ MFresh /\ HFresh /\ LFresh /\ NextQueue
    \/ QFresh /\ MFresh /\ HFresh /\ LFresh /\ NextStack
    \/ QFresh /\ SFresh /\ HFresh /\ LFresh /\ NextMapSeq
    \/ QFresh /\ SFresh /\ MFresh /\ LFresh /\ NextSet
    \/ QFresh /\ SFresh /\ MFresh /\ HFresh /\ NextList

SpecAny == InitSeq /\ [][NextAny]_vars

\* one process that works on one of the containers and also sweeps it
NextSweep ==
    \/ NextAny
    \/ QFresh /\ MFresh /\ HFresh /\ LFresh
          /\ \E t \in SThreads : SRemoveExpired(t) /\ UNCHANGED notStack
    \/ QFresh /\ SFresh /\ HFresh /\ LFresh
          /\ \E t \in MThreads : MRemoveExpired(t) /\ MObserve /\ UNCHANGED notMap
    \/ QFresh /\ SFresh /\ MFresh /\ LFresh
          /\ HRemoveExpired /\ UNCHANGED <<hclear, notSet>>

SpecSweep == InitSeq /\ [][NextSweep]_vars

(***************************************************************************)
(* Queue order                                                             *)
(***************************************************************************)
QChainIds == [i \in 1..Len(QChain) |-> q_gid[QChain[i]]]
QRefIds == [i \in 1..Len(q_ref) |-> q_ref[i].id]

\* C1: the chain from front to back is the reference deque (offer appends,
\* offerFirst prepends); a poll that returns true returns the bytes of the
\* front-most element of the reference deque that is alive when the poll
\* tests it under the lock; the elements polled are no longer linked, and
\* no element is returned by two polls.
C1_QueueOrder ==
    /\ QChainIds = QRefIds
    /\ \A i \in 1..Len(QChain) : qnodes[QChain[i]].data = q_ref[i].data
    /\ \A t2 \in Later(now) : \A t3 \in Later(t2) :
          LET r == FastQueue_poll_ret(t2, t3)
              gi == QGhostFirstAlive(q_ref, 1)
          IN r.ok => /\ gi # 0
                     /\ QGhostAliveAt(q_ref[gi], t2)
                     /\ r.data = q_ref[gi].data
    /\ \A i \in 1..Len(q_polled) : \A j \in 1..Len(q_ref) : q_polled[i] # q_ref[j].id
    /\ NoDuplicates(q_polled)

(***************************************************************************)
(* Sequential stack behaviour                                              *)
(***************************************************************************)
RECURSIVE SWalk(_, _, _)
\* the offsets linked from off through next_offset
SWalk(n, off, fuel) ==
    IF off < 0 \/ fuel = 0 THEN <<>>
    ELSE <<off>> \o SWalk(n, n[off].next_offset, fuel - 1)

SChain == SWalk(snodes, sheader.front_offset, MaxStackNodes + 1)

\* what the reference stack says peek returns now
SRefPeek ==
    LET gi == QGhostFirstAlive(s_ref, 1)
    IN IF gi = 0 THEN Ret(FALSE, <<>>) ELSE Ret(TRUE, s_ref[gi].data)

\* what the reference stack says search(data) returns now
SRefSearch(data) ==
    LET gi == QGhostFind(s_ref, 1, data)
    IN IF gi = 0 THEN -1
       ELSE 1 + Cardinality({i \in 1..(gi - 1) : QGhostAlive(s_ref[i])})

\* C2: with one thread on the stack, the nodes linked from front are the
\* elements pushed and not yet popped, most recent first; a pop that
\* returns true hands out the bytes of the most recent one; the elements it
\* drops on the way are expired; between operations peek
\* returns what the reference stack has as its first alive element and
\* search(x) returns 1 + the number of alive elements above the top-most
\* alive x, or -1.
C2_StackSequential ==
    /\ Len(SChain) = Len(s_ref)
    /\ \A i \in 1..Len(s_ref) :
          /\ s_gid[SChain[i]] = s_ref[i].id
          /\ snodes[SChain[i]].data = s_ref[i].data
    /\ \A t \in sthreads :
          spc[t] = "pop_post" =>
             /\ s_obs[t].took.id = s_obs[t].seen
             /\ IF sloc[t].expired
                THEN ~QGhostAlive(s_obs[t].took)
                ELSE sloc[t].data = s_obs[t].took.data
    /\ (\A t \in sthreads : spc[t] = "idle") =>
          /\ FastStack_peek = SRefPeek
          /\ \A data \in Payloads \cup {<<>>} :
                FastStack_search(data) = SRefSearch(data)

(***************************************************************************)
(* The ABA defence of the stack                                            *)
(***************************************************************************)
\* C3: a pop whose CAS has succeeded took off the node it had loaded: the id
\* at the top when it loaded front_offset is the id of the element its CAS
\* removed.  Had the node been popped, freed and its offset handed to a
\* later push in between, the CAS would have had to fail.
C3_PopCasFailsAfterReuse ==
    \A t \in sthreads :
        spc[t] = "pop_post" => s_obs[t].took.id = s_obs[t].seen

(***************************************************************************)
(* The map                                                                 *)
(***************************************************************************)
\* the offsets linked in the bucket of key
MChainOf(n, b, key) == SWalk(n, b[MBucketOf(key)].head_offset, MaxMapNodes + 1)

\* the positions in that chain of the records that carry key
MLinked(n, b, key) ==
    {i \in 1..Len(MChainOf(n, b, key)) : n[MChainOf(n, b, key)[i]].key = key}

\* C4: with one thread on the map, between calls get(k) returns for every
\* key k the bytes of the most recent successful write to k (put,
\* putIfAbsent, replace, whatever the lengths of the old and the new value),
\* and absent when k was never written, was removed or has expired since;
\* the bytes a get has just returned are those of the reference map at an
\* instant of the call.
C4_LastWriterWins ==
    mpc[1] = "idle" =>
       /\ \A k \in MKeys : FastMap_get(k) = MRefGet(k)
       /\ mloc[1].in.op = "get" => mloc[1].ret \in m_legal[1]

\* a replace has stored a value of another length in a bucket of two records
C4_Witness ==
    /\ mpc[1] = "idle"
    /\ mloc[1].in = MCall("replace", <<1>>, <<3>>, <<>>, 1)
    /\ mloc[1].ret.ok
    /\ FastMap_get(<<1>>) = Ret(TRUE, <<3>>)
    /\ FastMap_get(<<3>>).ok

\* thread t leaves the body of the call op
MDecides(t, op) == mpc[t] = op /\ mpc'[t] # op

MUnchangedMap == UNCHANGED <<mnodes, mfree, mbuckets, msize, m_ref>>

C7_ReplaceIsCompareAndSwap ==
    [][\A t \in mthreads : MDecides(t, "replaceIf") =>
          LET in == mloc[t].in
              matches == MRefGet(in.key) = Ret(TRUE, in.old)
          IN /\ (mpc'[t] \in {"copy", "finish"} \/ mloc'[t].ret.ok) => matches
             /\ (mpc'[t] = "idle" /\ ~mloc'[t].ret.ok) =>
                   /\ MUnchangedMap
                   /\ matches => mfree = {}
             /\ (/\ m_ops = 3
                 /\ \A u \in MThreads : /\ mpc'[u] = "idle"
                                        /\ mloc'[u].in.op = "replaceIf"
                                        /\ mloc'[u].in.key = in.key)
                => ~(\A u \in MThreads : mloc'[u].ret.ok)
    ]_vars

\* both threads have called replace(k, v0, .) after the put of v0; the one
\* returned true and the other false
C7_Witness ==
    /\ m_ops = 3
    /\ \A t \in MThreads : /\ mpc[t] = "idle"
                           /\ mloc[t].in.op = "replaceIf"
                           /\ mloc[t].in.old = <<1, 1>>
    /\ \E t \in MThreads : mloc[t].ret.ok
    /\ \E t \in MThreads : ~mloc[t].ret.ok
    /\ FastMap_get(<<1>>).ok

\* C8: what a get that ran beside writers returns is what the map held for
\* the key at an instant between the call and the return: the value of the
\* reference map at one of these instants, or the value a writer was storing
\* in place at one of them; it is never made of parts of two values, and
\* never absent for a key that was alive at all of them.
C8_GetLinearizable ==
    \A t \in mthreads :
       (mpc[t] = "idle" /\ mloc[t].in.op = "get") => mloc[t].ret \in m_legal[t]

(***************************************************************************)
(* Uniqueness                                                              *)
(***************************************************************************)
\* the records linked in the bucket of data that hold data and are alive at t
HAliveRecords(n, b, data, t) ==
    LET ch == SWalk(n, b[MBucketOf(data)].head_offset, MaxSetNodes + 1)
    IN {i \in 1..Len(ch) : n[ch[i]].data = data /\ is_alive(n[ch[i]], t)}

MAliveRecords(n, b, key, t) ==
    {i \in MLinked(n, b, key) : is_alive(n[MChainOf(n, b, key)[i]], t)}

\* C5: after every step of concurrent writers at most one record alive is
\* linked for each element of the set and for each key of the map, and
\* size() of the set is the number of elements added, not removed and not
\* expired; an add of an element that is alive returns false and leaves the
\* set as it is.
C5_Uniqueness ==
    [][/\ \A x \in HElems : Cardinality(HAliveRecords(hnodes', hbuckets', x, now')) <= 1
       /\ \A k \in MKeys : Cardinality(MAliveRecords(mnodes', mbuckets', k, now')) <= 1
       /\ HSumBuckets(hnodes', hbuckets', 0, now')
             = Cardinality({x \in HElems : HRefAliveAt(h_ref', x, now')})
       /\ (/\ h_ops' = h_ops + 1
           /\ h_ret'.op = "add"
           /\ HRefAliveAt(h_ref, h_ret'.data, now'))
          => /\ ~h_ret'.ok
             /\ HUnchangedSet
    ]_vars

\* the second add of an element that is alive has returned false
C5_Witness ==
    /\ h_ret = HCall("add", <<1>>, FALSE)
    /\ h_ops = 2
    /\ FastSet_contains(<<1>>)
    /\ FastSet_size = 1
    /\ hsize = 1

(***************************************************************************)
(* Time to live                                                            *)
(***************************************************************************)
QRefAliveCount(ref) == Cardinality({i \in 1..Len(ref) : QGhostAlive(ref[i])})
QRefAliveData(ref) ==
    LET a == SelectSeq(ref, QGhostAlive) IN [i \in 1..Len(a) |-> a[i].data]

C11_GetTTLSentinels ==
    mpc[1] = "idle" =>
       \A k \in MKeys :
          /\ FastMap_getTTL(k) = -1 <=>
                (FastMap_get(k).ok /\ m_ref[k].present /\ m_ref[k].exp = 0)
          /\ FastMap_getTTL(k) = 0 <=> ~FastMap_get(k).ok
          /\ (FastMap_get(k).ok /\ m_ref[k].exp # 0) => FastMap_getTTL(k) >= 1

(***************************************************************************)
(* The list                                                                *)
(***************************************************************************)
\* every element of the reference list is visible at instant t
LAllAliveAt(ref, t) == \A i \in 1..Len(ref) : QGhostAliveAt(ref[i], t)

\* C12: after every add (at the tail), addFirst, removeFirst and removeLast
\* on a list none of whose elements has expired, forEach enumerates the
\* reference sequence head first and size() is its length; a removeFirst
\* or removeLast on a list none of whose elements has expired when it
\* returns delivers the first or the last element of the reference
\* sequence, and on an empty list returns false.
C12_ListEndsRefineSequence ==
    [][/\ LAllAliveAt(l_ref', now') =>
             /\ FastList_forEach' = [i \in 1..Len(l_ref') |-> l_ref'[i].data]
             /\ FastList_size' = Len(l_ref')
       /\ (LRemoveFirst /\ LAllAliveAt(l_ref, now')) =>
             \A t2 \in now..now' :
                FastList_removeFirst_ret(t2, now') =
                   (IF l_ref = <<>> THEN Ret(FALSE, <<>>)
                    ELSE Ret(TRUE, l_ref[1].data))
       /\ (LRemoveLast /\ LAllAliveAt(l_ref, now')) =>
             \A t2 \in now..now' :
                FastList_removeLast_ret(t2, now') =
                   (IF l_ref = <<>> THEN Ret(FALSE, <<>>)
                    ELSE Ret(TRUE, l_ref[Len(l_ref)].data))]_vars

\* three elements were added and the one added second is what is left, with
\* a time to live that has not run out
C12_Witness ==
    /\ l_next_id = MaxListAdds + 1
    /\ Len(l_ref) = 1
    /\ l_ref[1].id = 2
    /\ l_ref[1].exp # 0
    /\ LAllAliveAt(l_ref, now)
    /\ FastList_forEach = <<l_ref[1].data>>
    /\ lfree = LOffsets \ {1}

\* C13: in every state of the list, also with expired nodes linked, a
\* get(i) during which the clock stands still returns the payload forEach
\* reports with index i when i < size(), and returns nothing when
\* i >= size().
C13_ListGet ==
    \A i \in LIndexes :
       FastList_get_ret(i, now, now) =
          (IF i < FastList_size THEN Ret(TRUE, FastList_forEach[i + 1])
           ELSE Ret(FALSE, <<>>))

\* the offsets of the alive nodes of a chain, head first, with the nodes of
\* the set extra counted as alive
LVisible(n, h, extra, t) ==
    LET Seen(o) == o \in extra \/ is_alive(n[o], t)
    IN SelectSeq(LChainOf(n, h), Seen)

\* C14: with size() the number of alive elements, an add(i, x) that finds
\* heap to allocate from: for i <= size() returns true and makes x the
\* element with index i among the alive ones, which keep their order and
\* their bytes (so add(size(), x) appends and add(0, x) prepends); for
\* i > size() returns false and leaves nodes, links and header unchanged;
\* also with expired nodes linked.
C14_ListInsertAt ==
    [][\A i \in LIndexes : \A in \in LAddAtInputs :
          (LAddAt(i, in.data, in.ttl) /\ l_call' # l_call /\ lfree # {}) =>
             LET a == LVisible(lnodes, lheader, {}, now)
                 new == lfree \ lfree'
                 b == LVisible(lnodes', lheader', new, now)
             IN IF i > Len(a)
                THEN /\ ~FastList_addAt_ret(i, in.data)
                     /\ UNCHANGED <<lnodes, lheader, lfree>>
                ELSE /\ FastList_addAt_ret(i, in.data)
                     /\ Cardinality(new) = 1
                     /\ Len(b) = Len(a) + 1
                     /\ b[i + 1] \in new
                     /\ lnodes'[b[i + 1]].data = in.data
                     /\ \A j \in 1..Len(a) :
                           /\ b[IF j <= i THEN j ELSE j + 1] = a[j]
                           /\ lnodes'[a[j]].data = lnodes[a[j]].data]_vars

\* the element of a chain position: its bytes and the end of its life
LElement(n, o) == <<n[o].data, n[o].expires_at>>

\* C15: a remove(i), set(i, x) or setTTL(i, ttl) during which the clock
\* stands still and, for set, heap is left: with i >= size() (the number of
\* alive elements) it leaves nodes, links and header unchanged; with
\* i < size() remove unlinks the alive element with index i and no other,
\* set gives that element the bytes x and leaves every other element and
\* the order alone, and setTTL changes no node but that element's.
C15_ListUpdateAt ==
    [][\A i \in LIndexes :
          LET a == LVisible(lnodes, lheader, {}, now)
              chain == LChainOf(lnodes, lheader)
              after == LChainOf(lnodes', lheader')
              Other(o) == o # a[i + 1]
              Step(A) == A /\ l_call' # l_call /\ now' = now
          IN /\ Step(LRemoveAt(i)) =>
                   IF i >= Len(a) THEN UNCHANGED <<lnodes, lheader, lfree>>
                   ELSE /\ after = SelectSeq(chain, Other)
                        /\ lheader'.size = lheader.size - 1
                        /\ \A j \in 1..Len(after) :
                              LElement(lnodes', after[j]) = LElement(lnodes, after[j])
             /\ \A in \in LSetInputs :
                   (Step(LSet(i, in.data, in.ttl)) /\ Len(in.data) > 0 /\ lfree # {}) =>
                      IF i >= Len(a) THEN UNCHANGED <<lnodes, lheader, lfree>>
                      ELSE /\ Len(after) = Len(chain)
                           /\ lheader'.size = lheader.size
                           /\ \A j \in 1..Len(chain) :
                                 IF chain[j] = a[i + 1]
                                 THEN lnodes'[after[j]].data = in.data
                                 ELSE /\ after[j] = chain[j]
                                      /\ LElement(lnodes', after[j]) =
                                            LElement(lnodes, chain[j])
             /\ \A ttl \in {TTL_INFINITE, 1} :
                   Step(LSetTTL(i, ttl)) =>
                      IF i >= Len(a) THEN UNCHANGED <<lnodes, lheader, lfree>>
                      ELSE /\ UNCHANGED <<lheader, lfree>>
                           /\ \A o \in LOffsets : Other(o) => lnodes'[o] = lnodes[o]
                           /\ lnodes'[a[i + 1]].data = lnodes[a[i + 1]].data
                           /\ lnodes'[a[i + 1]].ttl_seconds = ttl]_vars

(***************************************************************************)
(* The header                                                              *)
(***************************************************************************)
RECURSIVE LinkedInBuckets(_, _, _, _)
\* the number of records linked in the chains of the buckets from i on
LinkedInBuckets(n, b, i, fuel) ==
    IF i >= BucketCount THEN 0
    ELSE Len(QWalk(n, b[i].head_offset, fuel)) + LinkedInBuckets(n, b, i + 1, fuel)

\* C16: in each of the five containers, whenever no call is in progress,
\* header.size is the number of records linked in the chain or chains,
\* expired or not; for the set also with clear running beside add, remove
\* and setTTL.
C16_HeaderSize ==
    /\ qheader.size = Len(QChain)
    /\ (\A t \in sthreads : spc[t] = "idle") => sheader.size = Len(SChain)
    /\ (\A t \in mthreads : mpc[t] = "idle") =>
          msize = LinkedInBuckets(mnodes, mbuckets, 0, MaxMapNodes + 1)
    /\ hclear = NoClear => hsize = LinkedInBuckets(hnodes, hbuckets, 0, MaxSetNodes + 1)
    /\ lheader.size = Len(LChainOf(lnodes, lheader))

\* C17: between the calls on the list and on the queue, which all hold the
\* collection's lock from beginning to end, the head (front) offset is -1
\* exactly when the tail (back) offset is -1 and exactly when header.size
\* is 0.
C17_EmptinessEquivalence ==
    /\ (lheader.head_offset = NULL_OFFSET) <=> (lheader.tail_offset = NULL_OFFSET)
    /\ (lheader.head_offset = NULL_OFFSET) <=> (lheader.size = 0)
    /\ (qheader.front_offset = NULL_OFFSET) <=> (qheader.back_offset = NULL_OFFSET)
    /\ (qheader.front_offset = NULL_OFFSET) <=> (qheader.size = 0)

\* C17 witness: a list that held two elements is empty again after two
\* positional calls, with every node back on the free list
C17_Witness ==
    /\ l_call = MaxListCalls
    /\ l_next_id = 3
    /\ lfree = LOffsets
    /\ lheader = ListHeader

\* a sequence read from its last element to its first
ReverseSeq(q) == [i \in 1..Len(q) |-> q[Len(q) + 1 - i]]

\* the chain of nodes n between the offsets first and last: the first node
\* has no predecessor, the last no successor, every successor names its
\* predecessor, the walk by next_offset ends within max nodes and is the
\* walk by prev_offset read backwards
DoublyLinked(n, first, last, max) ==
    LET fwd == QWalk(n, first, max + 1)
        bwd == QWalkBack(n, last, max + 1)
    IN /\ first >= 0 => n[first].prev_offset = NULL_OFFSET
       /\ last >= 0 => n[last].next_offset = NULL_OFFSET
       /\ \A i \in 1..Len(fwd) :
              n[fwd[i]].next_offset >= 0 =>
                  n[n[fwd[i]].next_offset].prev_offset = fwd[i]
       /\ Len(fwd) <= max
       /\ \A i, j \in 1..Len(fwd) : fwd[i] = fwd[j] => i = j
       /\ fwd = ReverseSeq(bwd)

\* C18: between the calls on the list and on the queue the head (front)
\* node has prev -1, the tail (back) node has next -1, the successor of
\* every linked node names it as predecessor, and the walk from the head is
\* finite and is the walk from the tail in reverse order.
C18_DoublyLinked ==
    /\ DoublyLinked(lnodes, lheader.head_offset, lheader.tail_offset, MaxListNodes)
    /\ DoublyLinked(qnodes, qheader.front_offset, qheader.back_offset, MaxNodes)

\* C18 witness: of two elements added to the list the second has been given
\* a value of another size by set, and its new node stands in the old one's
\* place at the tail
C18_Witness ==
    /\ l_next_id = 3
    /\ l_call >= 1
    /\ LChainOf(lnodes, lheader) = <<0, 2>>
    /\ lheader.tail_offset = 2
    /\ lnodes[2].data = <<3, 3>>
    /\ lnodes[2].prev_offset = 0
    /\ lnodes[0].next_offset = 2
    /\ lfree = {1}

\* no offset of the chain that starts at first, and no prev_offset of a node
\* of that chain, is the offset of a block on the free list
NoFreedLink(n, free, first, max) ==
    LET walk == QWalk(n, first, max + 1)
    IN \A i \in 1..Len(walk) :
           /\ walk[i] \notin free
           /\ n[walk[i]].prev_offset \notin free

\* C19: in every state, the states inside a call included, neither a header
\* offset, nor a bucket head, nor the next or prev link of a node reached
\* from them is the offset of a node that free_node has given back.
C19_NoLinkToFreed ==
    /\ NoFreedLink(snodes, sfree, sheader.front_offset, MaxStackNodes)
    /\ NoFreedLink(qnodes, qfree, qheader.front_offset, MaxNodes)
    /\ qheader.back_offset \notin qfree
    /\ NoFreedLink(lnodes, lfree, lheader.head_offset, MaxListNodes)
    /\ lheader.tail_offset \notin lfree
    /\ \A b \in MBuckets :
           /\ NoFreedLink(mnodes, mfree, mbuckets[b].head_offset, MaxMapNodes)
           /\ NoFreedLink(hnodes, hfree, hbuckets[b].head_offset, MaxSetNodes)

\* the offsets reached from off by next_offset as far as they resolve to a
\* block of the file
RECURSIVE GWalk(_, _, _)
GWalk(n, off, fuel) ==
    IF off \notin Offsets \/ fuel = 0 THEN <<>>
    ELSE <<off>> \o GWalk(n, n[off].next_offset, fuel - 1)

\* C20: once an offer has grown the file, whatever the address of the new
\* mapping, the offsets stored from front_offset on resolve to the elements
\* offered and not polled, in their order, the one offered last included;
\* no stored offset is outside the file; and back_offset and size of the
\* file's header are those of that chain.
C20_GrowthPreservesOffsets ==
    LET chain == GWalk(qnodes, qheader.front_offset, MaxNodes + 1)
    IN qmap.grows > 0 =>
          /\ [i \in 1..Len(chain) |-> q_gid[chain[i]]] = QRefIds
          /\ \A o \in Offsets \ qfree :
                 /\ qnodes[o].next_offset \in Offsets \cup {NULL_OFFSET}
                 /\ qnodes[o].prev_offset \in Offsets \cup {NULL_OFFSET}
          /\ qheader.size = Len(q_ref)
          /\ qheader.back_offset =
                 IF chain = <<>> THEN NULL_OFFSET ELSE chain[Len(chain)]

(***************************************************************************)
(* clear                                                                   *)
(***************************************************************************)
\* the offsets of a chain, as a set
Linked(n, first, max) == {QWalk(n, first, max + 1)[i] :
                            i \in 1..Len(QWalk(n, first, max + 1))}

\* the records linked in the buckets b
LinkedIn(n, b, max) == UNION {Linked(n, b[i].head_offset, max) : i \in MBuckets}

\* C21: with one caller and no other call in progress, a clear of any of the
\* five containers leaves size() = 0 (isEmpty), header.size = 0 and every
\* end offset and bucket head -1; each record that was linked was not free
\* before and is free after, and the whole heap is free; and the insert
\* that then links a record into the empty container leaves that record as
\* the only one linked, with header.size 1.
C21_ClearPostcondition ==
    [][/\ QClear /\ UNCHANGED notQueue =>
            /\ FastQueue_size' = 0
            /\ qheader' = DequeHeader
            /\ Linked(qnodes, qheader.front_offset, MaxNodes) \cap qfree = {}
            /\ qfree' = Offsets
       /\ LClear /\ UNCHANGED <<l_call, notList>> =>
            /\ FastList_size' = 0
            /\ lheader' = ListHeader
            /\ Linked(lnodes, lheader.head_offset, MaxListNodes) \cap lfree = {}
            /\ lfree' = LOffsets
       /\ \A t \in SThreads :
            /\ SClearFree(t) /\ UNCHANGED notStack => sloc[t].next \notin sfree
            /\ SClearFinish(t) /\ UNCHANGED notStack =>
                 /\ FastStack_peek' = Ret(FALSE, <<>>)
                 /\ sheader'.front_offset = NULL_OFFSET
                 /\ sheader'.size = 0
                 /\ sfree' = SOffsets
            /\ MClear(t) /\ UNCHANGED notMap =>
                 /\ FastMap_size' = 0
                 /\ msize' = 0
                 /\ \A b \in MBuckets : mbuckets'[b] = ShmBucket
                 /\ LinkedIn(mnodes, mbuckets, MaxMapNodes) \cap mfree = {}
                 /\ mfree' = MOffsets
       /\ HClearBucket /\ UNCHANGED notSet =>
            Linked(hnodes, hbuckets[hclear].head_offset, MaxSetNodes) \cap hfree = {}
       /\ HClearFinish /\ UNCHANGED notSet =>
            /\ FastSet_size' = 0
            /\ hsize' = 0
            /\ \A b \in MBuckets : hbuckets'[b] = ShmBucket
            /\ hfree' = HOffsets
       /\ qheader = DequeHeader /\ qheader' # DequeHeader =>
            /\ Len(QChain') = 1
            /\ qheader'.size = 1
            /\ qheader'.front_offset = qheader'.back_offset
       /\ lheader = ListHeader /\ lheader' # ListHeader =>
            /\ Len(LChainOf(lnodes', lheader')) = 1
            /\ lheader'.size = 1
            /\ lheader'.head_offset = lheader'.tail_offset
       /\ sheader.front_offset = NULL_OFFSET /\ sheader'.front_offset # NULL_OFFSET =>
            Len(SChain') = 1
       /\ \A t \in SThreads :
            SPushPost(t) /\ sloc[t].top = NULL_OFFSET /\ UNCHANGED notStack =>
                 /\ Len(SChain') = 1
                 /\ sheader'.size = 1
       /\ LinkedIn(mnodes, mbuckets, MaxMapNodes) = {}
             /\ LinkedIn(mnodes', mbuckets', MaxMapNodes) # {} =>
            /\ Cardinality(LinkedIn(mnodes', mbuckets', MaxMapNodes)) = 1
            /\ msize' = 1
       /\ LinkedIn(hnodes, hbuckets, MaxSetNodes) = {}
             /\ LinkedIn(hnodes', hbuckets', MaxSetNodes) # {} =>
            /\ Cardinality(LinkedIn(hnodes', hbuckets', MaxSetNodes)) = 1
            /\ hsize' = 1
      ]_vars

\* C21 witness: two elements were added to the set and the third call, a
\* clear, has returned: both records are marked deleted and free again
C21_Witness ==
    /\ hclear = NoClear
    /\ h_ops = MaxSetOps
    /\ hsize = 0
    /\ hfree = HOffsets
    /\ \A b \in MBuckets : hbuckets[b] = ShmBucket
    /\ hnodes[0].state = STATE_DELETED
    /\ hnodes[1].state = STATE_DELETED
    /\ hnodes[0].data # hnodes[1].data

(***************************************************************************)
(* removeExpired                                                           *)
(***************************************************************************)
\* how many of the records of a chain are expired at t
ExpiredOf(n, first, max, t) ==
    Cardinality({o \in Linked(n, first, max) : is_expired(n[o], t)})

\* the chain without the records that are expired at t
KeptOf(n, first, max, t) ==
    LET Kept(o) == ~is_expired(n[o], t)
    IN SelectSeq(QWalk(n, first, max + 1), Kept)

\* the records of the chain from first on are those of the chain from
\* first0 on that had not expired, in their order and with their content
SweptChain(n0, first0, n1, first1, max, t) ==
    /\ QWalk(n1, first1, max + 1) = KeptOf(n0, first0, max, t)
    /\ \A o \in Linked(n1, first1, max) :
           /\ ~is_expired(n1[o], t)
           /\ [n1[o] EXCEPT !.next_offset = 0, !.prev_offset = 0]
                = [n0[o] EXCEPT !.next_offset = 0, !.prev_offset = 0]

RECURSIVE SumExpired(_, _, _, _, _)
SumExpired(n, b, i, max, t) ==
    IF i >= BucketCount THEN 0
    ELSE ExpiredOf(n, b[i].head_offset, max, t) + SumExpired(n, b, i + 1, max, t)

\* C22: with one caller and the clock standing still during the call,
\* removeExpired of each of the five containers returns the number of
\* records that are linked and expired; after it no expired record is
\* linked, header.size is lower by the count returned, the records that
\* had not expired are linked in the order they had, unchanged; and the
\* same call made again at once returns 0.
C22_RemoveExpiredSweeps ==
    [][/\ FastQueue_removeExpired_ret
            = ExpiredOf(qnodes, qheader.front_offset, MaxNodes, now)
       /\ FastList_removeExpired_ret
            = ExpiredOf(lnodes, lheader.head_offset, MaxListNodes, now)
       /\ (\A t \in SThreads : spc[t] = "idle") =>
            FastStack_removeExpired_ret
              = ExpiredOf(snodes, sheader.front_offset, MaxStackNodes, now)
       /\ FastSet_removeExpired_ret = SumExpired(hnodes, hbuckets, 0, MaxSetNodes, now)
       /\ (\A t \in MThreads : mpc[t] = "idle") =>
            FastMap_removeExpired_ret = SumExpired(mnodes, mbuckets, 0, MaxMapNodes, now)
       /\ QRemoveExpired /\ UNCHANGED notQueue =>
            /\ SweptChain(qnodes, qheader.front_offset, qnodes', qheader'.front_offset,
                          MaxNodes, now)
            /\ qheader'.size = qheader.size - FastQueue_removeExpired_ret
            /\ FastQueue_removeExpired_ret' = 0
       /\ LRemoveExpired /\ UNCHANGED <<l_call, notList>> =>
            /\ SweptChain(lnodes, lheader.head_offset, lnodes', lheader'.head_offset,
                          MaxListNodes, now)
            /\ lheader'.size = lheader.size - FastList_removeExpired_ret
            /\ FastList_removeExpired_ret' = 0
       /\ \A t \in SThreads :
            /\ SRemoveExpired(t) /\ UNCHANGED notStack =>
                 /\ SweptChain(snodes, sheader.front_offset, snodes',
                               sheader'.front_offset, MaxStackNodes, now)
                 /\ sheader'.size = sheader.size - FastStack_removeExpired_ret
                 /\ FastStack_removeExpired_ret' = 0
            /\ MRemoveExpired(t) /\ UNCHANGED notMap =>
                 /\ \A b \in MBuckets :
                        SweptChain(mnodes, mbuckets[b].head_offset, mnodes',
                                   mbuckets'[b].head_offset, MaxMapNodes, now)
                 /\ msize' = msize - FastMap_removeExpired_ret
                 /\ FastMap_removeExpired_ret' = 0
       /\ HRemoveExpired /\ UNCHANGED <<hclear, notSet>> =>
            /\ \A b \in MBuckets :
                   SweptChain(hnodes, hbuckets[b].head_offset, hnodes',
                              hbuckets'[b].head_offset, MaxSetNodes, now)
            /\ hsize' = hsize - FastSet_removeExpired_ret
            /\ FastSet_removeExpired_ret' = 0
      ]_vars

\* C22 witness: removeExpired of the set has just taken an expired element
\* out and left an alive one in
C22_Witness ==
    /\ h_ret.op = "removeExpired"
    /\ hsize = 1
    /\ FastSet_size = 1
    /\ \E o \in hfree : hnodes[o].state = STATE_DELETED /\ hnodes[o].expires_at # 0

(***************************************************************************)
(* take and poll with a timeout                                            *)
(***************************************************************************)
\* a record that never expires is linked in the queue
QHasForever ==
    \E o \in Linked(qnodes, qheader.front_offset, MaxNodes) :
        qnodes[o].state = STATE_VALID /\ qnodes[o].expires_at = 0

QWaiting(c) == qwait.pc[c] \notin {"idle", "done"}

C24_AllocationFailure ==
    [][\A t \in MThreads : \A in \in MCallsAlloc :
          /\ FastMap_putIfAbsent_bad_alloc(in.key, in.value)
          /\ FastMap_putIfAbsent(t, in.key, in.value, in.ttl)
          => /\ mfile'.grows <= mfile.grows + 1
             /\ mfile'.grows = mfile.grows =>
                   /\ mnodes' = mnodes
                   /\ mbuckets' = mbuckets
                   /\ msize' = msize
                   /\ ~mfile'.crashed
                   /\ \A b \in MBuckets : mmutex'[b] = 0
      ]_vars

(***************************************************************************)
(* persistence                                                             *)
(***************************************************************************)
\* what get(index) returns on a FastList object that has made no call yet
LFreshGet(n, h, index, t) ==
    LET r == node_at_index([n |-> n, f |-> {}, h |-> h, c |-> AccessCache], index, t)
    IN IF r.off < 0 \/ ~is_alive(n[r.off], t) THEN Ret(FALSE, <<>>)
       ELSE Ret(TRUE, copy_from_node(n[r.off], t))

MAGIC == <<64192, 7872>>
CURRENT_VERSION == 1

\* CollectionHeader(), the part every header starts with
CollectionHeader(size) == [magic |-> MAGIC, version |-> CURRENT_VERSION, size |-> size]

\* CollectionHeader::is_valid
CollectionHeader_is_valid(h) == h.magic = MAGIC /\ h.version = CURRENT_VERSION

\* the files as the five constructors leave them and the calls keep them
QueueFile == [exists |-> TRUE,
              objects |-> [x \in {"queue_header"} |-> CollectionHeader(qheader.size)]]
StackFile == [exists |-> TRUE,
              objects |-> [x \in {"stack_header"} |-> CollectionHeader(sheader.size)]]
ListFile == [exists |-> TRUE,
             objects |-> [x \in {"list_header"} |-> CollectionHeader(lheader.size)]]
SetFile == [exists |-> TRUE,
            objects |-> [x \in {"set_header", "set_buckets"} |-> CollectionHeader(hsize)]]
MapFile == [exists |-> TRUE,
            objects |-> [x \in {"map_header", "map_buckets"} |-> CollectionHeader(msize)]]

\* no file at the path, and a file whose object "header" is not a header
\* of this magic and version
MissingFile == [exists |-> FALSE, objects |-> <<>>]
ForeignFile == [exists |-> TRUE,
                objects |-> [x \in {"header"} |->
                               [magic |-> <<0, 0>>, version |-> CURRENT_VERSION, size |-> 1]]]

\* file.find<CollectionHeader>(name): first is the object of that name,
\* found says that first is not nullptr
find(file, name) ==
    IF name \in DOMAIN file.objects
    THEN [found |-> TRUE, first |-> file.objects[name]]
    ELSE [found |-> FALSE, first |-> CollectionHeader(0)]

isValidCollectionFile(file) ==
    IF ~file.exists THEN FALSE
    ELSE LET result == find(file, "header")
         IN result.found /\ CollectionHeader_is_valid(result.first)

\* getFileStats: the bool returned and stats.element_count
getFileStats(file) ==
    IF ~file.exists THEN [ok |-> FALSE, element_count |-> 0]
    ELSE LET result == find(file, "header")
         IN IF ~result.found \/ ~CollectionHeader_is_valid(result.first)
            THEN [ok |-> FALSE, element_count |-> 0]
            ELSE [ok |-> TRUE, element_count |-> result.first.size]

HeaderSizeOf(file) ==
    LET name == CHOOSE x \in DOMAIN file.objects :
                    x \in {"queue_header", "stack_header", "list_header",
                           "set_header", "map_header"}
    IN file.objects[name].size

\* C26: for the file of each of the five containers isValidCollectionFile
\* returns true and getFileStats succeeds with element_count the size of
\* the container's header; for a missing file and for a file without a
\* header of the magic and version both return false.
C26_FileValidity ==
    /\ \A file \in {QueueFile, StackFile, ListFile, SetFile, MapFile} :
           /\ isValidCollectionFile(file)
           /\ getFileStats(file).ok
           /\ getFileStats(file).element_count = HeaderSizeOf(file)
    /\ \A file \in {MissingFile, ForeignFile} :
           /\ ~isValidCollectionFile(file)
           /\ ~getFileStats(file).ok

(***************************************************************************)
(* set with ttl_seconds = -1                                               *)
(***************************************************************************)
\* C27: a set(index, data, size, -1) that succeeds on an alive element with
\* a finite TTL leaves the new bytes at the element's place in the list and
\* the instant at which the element expires as it was before the call.
C27_SetKeepsTTL ==
    [][\A i \in LIndexes : \A in \in LSetInputs :
          LET r == node_at_index(LS, i, now)
              old == lnodes[r.off]
          IN (/\ in.ttl = TTL_INFINITE
              /\ Len(in.data) # 0
              /\ r.off >= 0
              /\ is_alive(old, now)
              /\ old.expires_at # 0
              /\ LSet(i, in.data, in.ttl) /\ LCounted
              /\ lheader'.size = lheader.size)
             => LET put == LChainOf(lnodes', lheader')[LPos(r.off)]
                IN /\ lnodes'[put].data = in.data
                   /\ lnodes'[put].expires_at = old.expires_at
      ]_vars

(***************************************************************************)
(* pushAll                                                                 *)
(***************************************************************************)
\* C28: while a thread is inside pushAll with some of its elements linked
\* and others not, no other thread's pop reads the top of the stack; and
\* each element of a pushAll is linked directly on top of the element the
\* same pushAll linked before it.
C28_PushAllAtomic ==
    [][\A t \in SThreads :
          /\ \A u \in SThreads \ {t} :
                 SPrefixPushed(t) => ~(SPopLoad(u) /\ UNCHANGED notStack)
          /\ (/\ spc[t] = "all_cas"
              /\ sloc[t].below >= 0
              /\ SPushAllCas(t) /\ UNCHANGED notStack
              /\ sheader' # sheader)
             => snodes[sloc[t].node].next_offset = sloc[t].below
      ]_vars

(***************************************************************************)
(* the access cache of the list                                            *)
(***************************************************************************)
\* node_at_index, the two cached paths alone: the offset they answer with,
\* NULL_OFFSET when the call goes on to the full traversal
LCachedPath(s, index, t) ==
    LET usable == s.c.last_index # SIZE_MAX /\ s.c.last_offset >= 0
        fwd == IF usable /\ index = s.c.last_index + 1
               THEN LSkipExpired(s.n, s.n[s.c.last_offset].next_offset, TRUE, t,
                                 MaxListNodes + 1)
               ELSE NULL_OFFSET
        bwd == IF usable /\ index = s.c.last_index - 1 /\ s.c.last_index > 0
               THEN LSkipExpired(s.n, s.n[s.c.last_offset].prev_offset, FALSE, t,
                                 MaxListNodes + 1)
               ELSE NULL_OFFSET
    IN IF fwd >= 0 /\ is_alive(s.n[fwd], t) THEN fwd
       ELSE IF bwd >= 0 /\ is_alive(s.n[bwd], t) THEN bwd
       ELSE NULL_OFFSET

\* C29: whatever calls were made before, an index that node_at_index
\* answers from the access cache is answered with the node that a traversal
\* from the head, counting the alive elements, finds at that index.
C29_CacheMatchesTraversal ==
    \A i \in LIndexes :
        LET off == LCachedPath(LS, i, now)
        IN off >= 0 =>
             /\ node_at_index(LS, i, now).off = off
             /\ off = LFromHead(lnodes, lheader.head_offset, 0, i, now, MaxListNodes + 1)

(***************************************************************************)
(* add of an element whose record has expired                              *)
(***************************************************************************)
\* the records linked in the bucket of data that hold its bytes
HRecordsOf(n, b, data) ==
    {o \in Linked(n, b[MBucketOf(data)].head_offset, MaxSetNodes) : n[o].data = data}

\* C30: an add(x, ttl) called while a linked record holds x in state Valid
\* and expired, and none holds it alive, returns true without allocating: the records linked in the
\* bucket, the bucket and header.size are as before, and a record of x is
\* alive with the expiry instant of the new TTL.
C30_AddRevivesExpired ==
    [][\A in \in HInputs :
          (/\ in.data # <<>>
           /\ \E o \in HRecordsOf(hnodes, hbuckets, in.data) :
                  hnodes[o].state = STATE_VALID /\ is_expired(hnodes[o], now)
           /\ \A o \in HRecordsOf(hnodes, hbuckets, in.data) :
                  ~is_alive(hnodes[o], now)
           /\ HAdd(in.data, in.ttl)
           /\ UNCHANGED <<hclear, notSet>>)
          => /\ h_ret'.ok
             /\ hfree' = hfree
             /\ hbuckets' = hbuckets
             /\ hsize' = hsize
             /\ Linked(hnodes', hbuckets'[MBucketOf(in.data)].head_offset, MaxSetNodes)
                  = Linked(hnodes, hbuckets[MBucketOf(in.data)].head_offset, MaxSetNodes)
             /\ \E o \in HRecordsOf(hnodes', hbuckets', in.data) :
                  /\ is_alive(hnodes'[o], now')
                  /\ \E t \in now..now' :
                       hnodes'[o].expires_at
                         = IF in.ttl < 0 THEN 0 ELSE t + in.ttl * TicksPerSec
      ]_vars

(***************************************************************************)
(* the expired nodes at the front of the queue                             *)
(***************************************************************************)
RECURSIVE QExpiredPrefix(_, _, _)
\* how many nodes at the head of the chain are expired at t
QExpiredPrefix(n, chain, t) ==
    IF chain = <<>> THEN 0
    ELSE IF ~is_expired(n[chain[1]], t) THEN 0
    ELSE 1 + QExpiredPrefix(n, Tail(chain), t)

\* a call has unlinked the expired nodes at the front and at most most
\* elements after them
QFrontSkipped(most) ==
    LET chain == QChain
        k == QExpiredPrefix(qnodes, chain, now)
        rest == SubSeq(chain, k + 1, Len(chain))
        after == QWalk(qnodes', qheader'.front_offset, MaxNodes + 1)
        gone == {chain[i] : i \in 1..Len(chain)} \ {after[i] : i \in 1..Len(after)}
        Given(o) == o \in gone /\ ~is_expired(qnodes[o], now)
        given == SelectSeq(chain, Given)
        front == qheader'.front_offset
    IN /\ \E j \in 0..Len(rest) : after = SubSeq(rest, j + 1, Len(rest))
       /\ gone \cap qfree = {}
       /\ qfree' = qfree \cup gone
       /\ \A o \in gone : qnodes'[o].state = STATE_DELETED
       /\ qheader'.size = qheader.size - Cardinality(gone)
       /\ \A i \in 1..Len(after) :
            /\ qnodes'[after[i]].data = qnodes[after[i]].data
            /\ qnodes'[after[i]].expires_at = qnodes[after[i]].expires_at
       /\ Len(given) <= most
       /\ q_polled' = q_polled \o [i \in 1..Len(given) |-> q_gid[given[i]]]
       /\ front >= 0 => qnodes'[front].prev_offset = NULL_OFFSET
       /\ (front < 0) = (qheader'.back_offset < 0)
       /\ (given = <<>> /\ front >= 0) => ~is_expired(qnodes'[front], now)

\* C31: every poll, peek and drainTo unlinks the expired nodes at the front
\* first: each of them is freed once and header.size goes down by one per
\* node; when the call hands out nothing, front_offset is -1 or the offset
\* of a node that is not expired and has no predecessor; the elements that
\* are not expired stay linked in their order with their bytes, except the
\* ones the call hands out.
C31_FrontSkip ==
    [][/\ (QPeek /\ UNCHANGED notQueue) => QFrontSkipped(0)
       /\ (QPoll /\ UNCHANGED notQueue) => QFrontSkipped(1)
       /\ \A max_elements \in 0..MaxDrain :
            (QDrainTo(max_elements) /\ UNCHANGED notQueue)
              => QFrontSkipped(IF max_elements = 0 THEN MaxNodes ELSE max_elements)
      ]_vars

\* of three elements offered one was handed out and one is left: the third
\* was unlinked as expired
C31_Witness ==
    /\ q_next_id = 4
    /\ Len(q_polled) = 1
    /\ qheader.size = 1
    /\ Len(QChain) = 1

(***************************************************************************)
(* the expired nodes at the back of the queue                              *)
(***************************************************************************)
\* how many nodes at the end of the chain are expired at t
QExpiredSuffix(n, chain, t) ==
    QExpiredPrefix(n, [i \in 1..Len(chain) |-> chain[Len(chain) + 1 - i]], t)

\* a call has unlinked the expired nodes at the back and at most most
\* elements before them
QBackSkipped(most) ==
    LET chain == QChain
        k == QExpiredSuffix(qnodes, chain, now)
        rest == SubSeq(chain, 1, Len(chain) - k)
        after == QWalk(qnodes', qheader'.front_offset, MaxNodes + 1)
        gone == {chain[i] : i \in 1..Len(chain)} \ {after[i] : i \in 1..Len(after)}
        back == qheader'.back_offset
    IN /\ \E j \in 0..most : j <= Len(rest) /\ after = SubSeq(rest, 1, Len(rest) - j)
       /\ qfree' = qfree \cup gone
       /\ \A o \in gone : qnodes'[o].state = STATE_DELETED
       /\ qheader'.size = qheader.size - Cardinality(gone)
       /\ (back < 0) = (qheader'.front_offset < 0)
       /\ (after = rest /\ back >= 0) => ~is_expired(qnodes'[back], now)

\* C32: pollLast and peekLast unlink the expired nodes at the back before
\* they report: each is freed and header.size goes down by one per node,
\* and back_offset is then -1 or the offset of a node that is not expired.
C32_BackSkip ==
    [][/\ (QPollLast /\ UNCHANGED notQueue) => QBackSkipped(1)
       /\ (QPeekLast /\ UNCHANGED notQueue) => QBackSkipped(0)
      ]_vars

(***************************************************************************)
(* setTTL                                                                  *)
(***************************************************************************)
\* between the instants t0 and t1 the entry e0 has got the TTL ttl, counted
\* from an instant of that interval, and nothing else of it has changed
TTLRebased(e0, e1, ttl, t0, t1) ==
    /\ [e1 EXCEPT !.expires_at = e0.expires_at, !.ttl_seconds = e0.ttl_seconds] = e0
    /\ e1.ttl_seconds = ttl
    /\ \E t \in t0..t1 :
         e1.expires_at = IF ttl < 0 THEN 0 ELSE t + ttl * TicksPerSec

\* a setTTL with the TTL ttl has acted on the heap n0 -> n1 as on the entry
\* at off (off < 0: no alive entry when the call started); ok is what it
\* returned, ok_known whether the model records it
TTLCall(n0, n1, off, ttl, ok_known, ok) ==
    /\ \A o \in DOMAIN n0 : o # off => n1[o] = n0[o]
    /\ off < 0 => n1 = n0 /\ (ok_known => ~ok)
    /\ off >= 0 =>
         /\ n1[off] = n0[off] \/ TTLRebased(n0[off], n1[off], ttl, now, now')
         /\ is_alive(n0[off], now') => TTLRebased(n0[off], n1[off], ttl, now, now')
         /\ ok_known => IF ok THEN TTLRebased(n0[off], n1[off], ttl, now, now')
                         ELSE n1[off] = n0[off]

MStoresInPlace(t) ==
    /\ \/ MCopyByte(t)
       \/ MFinish(t)
       \/ MSetTTL(t)
    /\ MObserve
    /\ UNCHANGED notMap

\* C34: a record of the map that is expired or marked deleted is not alive
\* after a step that leaves it at its place: what becomes visible under
\* its key is a record on storage allocated for it.
C34_NoResurrection ==
    [][\A t \in MThreads :
          MStoresInPlace(t) =>
             \A o \in MOffsets \ mfree :
                (is_expired(mnodes[o], now) \/ mnodes[o].state = STATE_DELETED)
                   => ~is_alive(mnodes'[o], now')
      ]_vars

(***************************************************************************)
(* clear of the stack beside push and pop                                  *)
(***************************************************************************)
\* C35: with one thread pushing and popping and another clearing, no node
\* is freed that is free already, and whenever no call is in progress
\* every node that is allocated is reachable from front_offset and
\* header.size is the number of nodes reachable.
C35_StackLockVsLockFree ==
    [][/\ (SClearFree(2) /\ UNCHANGED notStack) => sloc[2].next \notin sfree
       /\ (SPopPost(1) /\ UNCHANGED notStack) => sloc[1].top \notin sfree
       /\ (\A t \in SThreads : spc'[t] = "idle") =>
             LET chain == SWalk(snodes', sheader'.front_offset, MaxStackNodes + 1)
             IN /\ SOffsets \ sfree' \subseteq {chain[i] : i \in 1..Len(chain)}
                /\ sheader'.size = Len(chain)
      ]_vars

(***************************************************************************)
(* the lock-free paths and freed storage                                   *)
(***************************************************************************)
\* C36: a step of a lock-free stack operation never reads or writes a field
\* of a node whose storage has been returned to the heap: pop's is_expired
\* test, its load of next_offset and copy_from_node read a node that is
\* still allocated, pop's store to the next node's prev_offset and push's
\* post-CAS store to the previous top's prev_offset write one
C36_NoUseAfterFree ==
    [][\A t \in SThreads :
         /\ (SPopCheck(t) /\ UNCHANGED notStack) => sloc[t].top \notin sfree
         /\ (SPopCopy(t) /\ UNCHANGED notStack) => sloc[t].top \notin sfree
         /\ (SPopPost(t) /\ UNCHANGED notStack /\ sloc[t].next >= 0)
               => sloc[t].next \notin sfree
         /\ (SPushPost(t) /\ UNCHANGED notStack /\ sloc[t].top >= 0)
               => sloc[t].top \notin sfree
      ]_vars

(***************************************************************************)
(* removeFirst and removeLast and the elements a reader can see            *)
(***************************************************************************)
\* what the claim lets a removal at one end return and leave behind, alive
\* being the alive nodes head first, taken the one removed and rest the
\* alive nodes that stay
LVisibleRemoved(r, alive, taken, rest) ==
    IF alive = <<>>
    THEN ~r.ok
    ELSE /\ r.ok
         /\ r.data = lnodes[taken].data
         /\ LAliveFrom(lnodes', lheader'.head_offset, now) = rest

\* C37: a removeFirst or removeLast that reads the clock at the time of the
\* call returns true exactly when the list has an alive element; it then
\* delivers the bytes of the first (last) alive element and leaves the
\* other alive elements in order, so size() is one less; with no alive
\* element, also when the head (tail) node is an expired one that is still
\* linked, it returns false
C37_RemoveEndsVisible ==
    [][LET alive == LAliveFrom(lnodes, lheader.head_offset, now)
       IN /\ (LRemoveFirst /\ UNCHANGED <<l_call, notList, now>>) =>
                LVisibleRemoved(FastList_removeFirst_ret(now, now), alive,
                                Head(alive), Tail(alive))
          /\ (LRemoveLast /\ UNCHANGED <<l_call, notList, now>>) =>
                LVisibleRemoved(FastList_removeLast_ret(now, now), alive,
                                alive[Len(alive)], SubSeq(alive, 1, Len(alive) - 1))
      ]_vars

(***************************************************************************)
(* poll with a timeout on a queue that holds an element                    *)
(***************************************************************************)
\* C38: when no other consumer takes part, a poll(out_data, timeout_ms)
\* called, with any timeout_ms >= 0, while a never-expiring element is in
\* the queue does not return false: the element stays alive and queued
\* until the call takes it
C38_TimedPollFindsElement ==
    [](qwait.pc["take"] = "idle")
       => []((qwait.pc["poll"] = "called" /\ QHasForever)
               => [](~(qwait.pc["poll"] = "done" /\ ~qwait.ok["poll"])))

(***************************************************************************)
(* remove(key) of the map and the records a reader can see                 *)
(***************************************************************************)
\* C39: a remove(key) of the map returns what a get(key) made in its place
\* would have returned: true with the value of the alive record of the key,
\* false for a key that is absent or whose record has expired, and in that
\* case the buckets' chains, the records and header.size stay as they are
C39_RemoveVisibleOnly ==
    [][\A t \in MThreads :
          (MRemove(t) /\ MObserve /\ UNCHANGED notMap) =>
             LET g == FastMap_get(mloc[t].in.key)
             IN /\ mloc'[t].ret = g
                /\ ~g.ok => /\ mbuckets' = mbuckets
                            /\ mnodes' = mnodes
                            /\ msize' = msize
      ]_vars

====
